---- MODULE Spec2Model ----
(***************************************************************************)
(* Model of the SMTR Rio bus data service: the three node-cache backed     *)
(* namespaces of CacheService (cacheService.js) and SppoService            *)
(* (sppoService.js): getAllBusData, getBusByLine, getBusByPosition,        *)
(* calcularDistancia, getStats, updateLineIndex and clearCaches, and the   *)
(* routes GET /api/sppo/posicao and GET /api/sppo/linha/:linha of          *)
(* SppoController with their validation and errorHandler (server.js).      *)
(* The front end is modelled beside it: the fetch, message and sync        *)
(* listeners of the service worker (sw.js) and, of BusMonitorApp (app.js), *)
(* the error message, the table with its scroll listener and the markers   *)
(* of the map.                                                             *)
(*                                                                         *)
(* Time is the value of Date.now() in milliseconds; the clock advances in  *)
(* steps of one minute.  Strings are sequences of one-character strings.   *)
(* Coordinates are fixed-point numbers in units of 1/Scale degree,         *)
(* distances and radii are whole metres.                                   *)
(* An asynchronous handler is atomic between two suspension points; the    *)
(* only suspension point of the service is the upstream HTTP request of    *)
(* getAllBusData, so a call is one action when it needs no upstream        *)
(* request and two actions (issue, complete) when it does.                 *)
(***************************************************************************)
EXTENDS Integers, Sequences, FiniteSets, TLC

\* ------------------------------------------------------------------ bounds
\* number of one-minute clock steps explored
MaxTicks == 7
\* number of upstream requests that may be in flight at once
MaxInFlight == 2
\* the same two bounds where the queries by line are explored
LineTicks == 3
LineInFlight == 1
\* the same two bounds where calls with one line argument overlap
SameTicks == 3
SameInFlight == 2
\* clock steps where the line namespace is filled
FullTicks == 1
\* the same two bounds where the three kinds of query are explored
QueryTicks == 3
QueryInFlight == 1
\* the same for the specification of the queries by position
PositionTicks == 6
PositionInFlight == 1
\* the same for the specification of the statistics
StatsTicks == 6
StatsInFlight == 1
\* the same for the specification of the route of the queries by position
RouteTicks == 2
RouteInFlight == 1
\* the same where the lines of the index contain one another
LookupTicks == 1
LookupInFlight == 1
\* the longest array of the feed
MaxFeedLen == 4
\* clock steps where the stale snapshot expires under the line index
AgeTicks == 32
AgeInFlight == 1
\* the same two bounds where every method of the service is called
AllTicks == 1
AllInFlight == 2
\* requests the service worker may have on the network at once
SwInFlight == 2
\* steps of the clock of the page, and calls of showError and of updateMap
\* explored
AppTicks == 5
MaxShows == 2
MaxUpdates == 2
\* length of the long list of the page: over the ceiling of plain markers
\* and over two pages of the table
BigLen == 101
\* key ceiling of each namespace (cacheConfig.maxKeys is 1000; the model
\* explores the same ceiling logic with a ceiling the inputs can reach)
maxKeys == 3

\* ------------------------------------------------- constants of the source
MsPerMinute == 1000 * 60
MsPerSecond == MsPerMinute \div 60
\* Date.now() when the process starts (any positive instant)
Epoch == 100 * MsPerMinute
stdTTLGeneral == 300
stdTTLLine == 180
stdTTLPosition == 120
checkperiod == 120
fetchInterval == 300000
timeout == 30000
ttlAll == 300
ttlStale == 1800
ttlLineResult == 120
ttlPositionResult == 120
\* app.js: delay of the timer of showError (ms), rows of one page of the
\* table, and the longest list drawn without the cluster group
hideDelay == 5000
itemsPerPage == 50
clusterLimit == 100
recentMinutes == 5
\* decimal places of the coordinates in a position cache key: toFixed(4)
KeyDecimals == 4
\* decimal places of the fixed-point coordinates: one more than a key keeps
Decimals == KeyDecimals + 1
\* Earth radius in km, and the degree in millionths of a radian
R == 6371
MicroRadPerDegree == 17453

cacheKey == "sppo_all_buses"
staleKey == "sppo_all_buses_stale"

\* ----------------------------------------------------------------- strings
Whitespace == {" "}

ToLowerChar(c) ==
  CASE c = "A" -> "a"
    [] c = "B" -> "b"
    [] OTHER -> c

\* String.prototype.toLowerCase
ToLowerCase(s) == [i \in 1..Len(s) |-> ToLowerChar(s[i])]

RECURSIVE TrimStart(_)
TrimStart(s) ==
  IF s # <<>> /\ Head(s) \in Whitespace THEN TrimStart(Tail(s)) ELSE s

RECURSIVE TrimEnd(_)
TrimEnd(s) ==
  IF s # <<>> /\ s[Len(s)] \in Whitespace
    THEN TrimEnd(SubSeq(s, 1, Len(s) - 1))
    ELSE s

\* String.prototype.trim
Trim(s) == TrimEnd(TrimStart(s))

\* String.prototype.includes: sub occurs in s as a contiguous substring
Includes(s, sub) ==
  \E i \in 1..(Len(s) - Len(sub) + 1) : SubSeq(s, i, i + Len(sub) - 1) = sub

\* linha.toString().trim().toLowerCase()
NormalizeLine(linha) == ToLowerCase(Trim(linha))

unknownLine == <<"u", "n", "k", "n", "o", "w", "n">>

\* ----------------------------------------------------------------- numbers
DigitChars == {"0", "1", "2", "3", "4", "5", "6", "7", "8", "9"}

DigitVal(c) ==
  CASE c = "0" -> 0 [] c = "1" -> 1 [] c = "2" -> 2 [] c = "3" -> 3
    [] c = "4" -> 4 [] c = "5" -> 5 [] c = "6" -> 6 [] c = "7" -> 7
    [] c = "8" -> 8 [] c = "9" -> 9

RECURSIVE TakeDigits(_)
TakeDigits(s) ==
  IF s # <<>> /\ Head(s) \in DigitChars
    THEN <<Head(s)>> \o TakeDigits(Tail(s))
    ELSE <<>>

RECURSIVE DigitsToInt(_)
DigitsToInt(ds) ==
  IF ds = <<>> THEN 0
  ELSE DigitsToInt(SubSeq(ds, 1, Len(ds) - 1)) * 10 + DigitVal(ds[Len(ds)])

RECURSIVE Pow10(_)
Pow10(n) == IF n = 0 THEN 1 ELSE 10 * Pow10(n - 1)

\* fixed-point scale of coordinates
Scale == Pow10(Decimals)

\* fractional digits as a number of 1/Scale units (digits beyond the
\* precision of the fixed-point representation are dropped)
FracToInt(ds) ==
  LET k == IF Len(ds) > Decimals THEN Decimals ELSE Len(ds)
  IN DigitsToInt(SubSeq(ds, 1, k)) * Pow10(Decimals - k)

\* String.prototype.replace(',', '.'): the first comma only
RECURSIVE ReplaceComma(_)
ReplaceComma(s) ==
  IF s = <<>> THEN <<>>
  ELSE IF Head(s) = "," THEN <<".">> \o Tail(s)
  ELSE <<Head(s)>> \o ReplaceComma(Tail(s))

\* parseFloat on a string: leading blanks, sign, digits, '.', digits; the
\* longest numeric prefix counts; ok = FALSE stands for NaN.  The steps of
\* the scan, last first: the value of the digits ip before and fp after
\* the point
ParseValue(neg, ip, fp) ==
  [ok |-> Len(ip) + Len(fp) > 0,
   n |-> (IF neg THEN -1 ELSE 1) * (DigitsToInt(ip) * Scale + FracToInt(fp))]

\* the digits after the point, when rest starts with one
ParseFraction(neg, ip, rest) ==
  ParseValue(neg, ip,
             IF rest # <<>> /\ Head(rest) = "." THEN TakeDigits(Tail(rest)) ELSE <<>>)

ParseInteger(neg, s2, ip) == ParseFraction(neg, ip, SubSeq(s2, Len(ip) + 1, Len(s2)))

ParseUnsigned(neg, s2) == ParseInteger(neg, s2, TakeDigits(s2))

ParseSigned(s1) ==
  ParseUnsigned(s1 # <<>> /\ Head(s1) = "-",
                IF s1 # <<>> /\ Head(s1) \in {"-", "+"} THEN Tail(s1) ELSE s1)

ParseFloat(s) == ParseSigned(TrimStart(s))

\* parseFloat(x?.replace(',', '.')) || 0
OrZero(p) == IF p.ok THEN p.n ELSE 0

ParseCoordinate(s) == OrZero(ParseFloat(ReplaceComma(s)))

\* the comma-decimal strings of the feed
LatCentro == <<"-", "2", "2", ",", "9", "0", "6", "8">>
LonCentro == <<"-", "4", "3", ",", "1", "7", "2", "9">>
LatPerto == <<"-", "2", "2", ",", "9", "1">>
LatLonge == <<"-", "2", "3", ",", "5">>
LatBorda == <<"-", "2", "2", ",", "9", "0", "2", "3", "1">>
\* 0.15 degree north of LatCentro
LatAlem == <<"-", "2", "2", ",", "7", "5", "6", "8">>
\* a latitude beyond the pole and a string that is no number
LatFora == <<"-", "9", "5", ",", "5">>
Garbage == <<"x">>
CoordinateStrings ==
  {LatCentro, LonCentro, LatPerto, LatLonge, LatBorda, LatAlem, LatFora, Garbage}

\* ParseCoordinate over the strings of the feed, evaluated once
ParsedCoordinate == [s \in CoordinateStrings |-> ParseCoordinate(s)]

\* parseFloat(bus.velocidade) || 0 for a numeric velocidade
ParseSpeed(v) == v

\* ------------------------------------------------------------- the records
\* A record of the feed is a record of its fields: latitude and longitude
\* are strings, velocidade and datahora numbers; a field the feed left out
\* (undefined in the code) is left out of the record.
Has(bus, field) == field \in DOMAIN bus

\* normalizeBusData: the record with dotted coordinates, numeric speed and
\* the observation instant (the ISO string of the epoch milliseconds, read
\* back with new Date(...) by every user).  A field left out parses to NaN:
\* a coordinate or speed becomes 0, and for datahora toISOString() throws
\* and the catch block returns the record as it came
normalizeBusData(bus) ==
  IF ~Has(bus, "datahora") THEN bus
  ELSE [ordem |-> bus.ordem,
        linha |-> bus.linha,
        latitude |-> IF Has(bus, "latitude") THEN ParsedCoordinate[bus.latitude] ELSE 0,
        longitude |-> IF Has(bus, "longitude") THEN ParsedCoordinate[bus.longitude] ELSE 0,
        dataHora |-> bus.datahora,
        velocidade |-> IF Has(bus, "velocidade") THEN ParseSpeed(bus.velocidade) ELSE 0]

\* IsActive with the bound of the recent window left out
IsActiveStrict(normalized, agora) ==
  \/ Has(normalized, "velocidade") /\ normalized.velocidade > 0
  \/ /\ Has(normalized, "dataHora")
     /\ (agora - normalized.dataHora) < recentMinutes * MsPerMinute

\* emMovimento || dadosRecentes at instant agora; a comparison with NaN (a
\* speed or an instant the record does not have) is false
IsActive(normalized, agora) ==
  \/ Has(normalized, "velocidade") /\ normalized.velocidade > 0
  \/ /\ Has(normalized, "dataHora")
     /\ (agora - normalized.dataHora) <= recentMinutes * MsPerMinute

\* lines 117-122: the normalized record is pushed when it is active
KeepActive(normalized, agora) ==
  IF IsActive(normalized, agora) THEN <<normalized>> ELSE <<>>

\* the loop of getAllBusData over response.data
RECURSIVE ActiveBuses(_, _)
ActiveBuses(data, agora) ==
  IF data = <<>> THEN <<>>
  ELSE KeepActive(normalizeBusData(Head(data)), agora)
       \o ActiveBuses(Tail(data), agora)

\* ---------------------------------------------------------------- distance
Abs(x) == IF x < 0 THEN -x ELSE x

\* the integer square root, by bisection
RECURSIVE SqrtBetween(_, _, _)
SqrtBetween(n, lo, hi) ==
  IF hi - lo <= 1 THEN lo
  ELSE LET mid == (lo + hi) \div 2
       IN IF mid * mid <= n THEN SqrtBetween(n, mid, hi) ELSE SqrtBetween(n, lo, mid)

Sqrt(n) == SqrtBetween(n, 0, 46341)

\* Math.cos of an angle of x/Scale degrees, in ten-thousandths: the angle in
\* units of 0.0001 rad, then the series 1 - x^2/2 + x^4/24 - x^6/720
Cos(x) ==
  LET rad == ((Abs(x) \div 100) * MicroRadPerDegree) \div 100000
      x2 == (rad * rad) \div 10000
      x4 == (x2 * x2) \div 10000
      x6 == (x4 * x2) \div 10000
  IN 10000 - (x2 \div 2) + (x4 \div 24) - (x6 \div 720)

\* the haversine distance in metres inside the box, where the half-angles
\* are below 0.001 rad, sin x = x and atan2(sqrt a, sqrt(1 - a)) = sqrt a
\* to seven digits: R * sqrt(dLat^2 + cos(lat1) cos(lat2) dLon^2), with c
\* the square root of the product of the cosines in ten-thousandths
ArcEast(dLat, east) ==
  (Sqrt(dLat * dLat + east * east) * ((R * MicroRadPerDegree) \div 1000)) \div 100000

Arc(dLat, dLon, c) == ArcEast(dLat, (dLon * c) \div 10000)

\* the distance outside the box taken as 0
BoxedDistanceZero(dLat, dLon, lat1, lat2) ==
  IF dLat > Scale \div 10 \/ dLon > Scale \div 10
    THEN [finite |-> TRUE, m |-> 0]
    ELSE [finite |-> TRUE, m |-> Arc(dLat, dLon, Sqrt(Cos(lat1) * Cos(lat2)))]

\* the bounding box of 0.1 degree, then the haversine distance
BoxedDistance(dLat, dLon, lat1, lat2) ==
  IF dLat > Scale \div 10 \/ dLon > Scale \div 10
    THEN [finite |-> FALSE, m |-> 0]
    ELSE [finite |-> TRUE, m |-> Arc(dLat, dLon, Sqrt(Cos(lat1) * Cos(lat2)))]

\* calcularDistancia with the differences cut down to the box
calcularDistanciaClamped(lat1, lon1, lat2, lon2) ==
  BoxedDistance(IF Abs(lat2 - lat1) > Scale \div 10 THEN Scale \div 10 ELSE Abs(lat2 - lat1),
                IF Abs(lon2 - lon1) > Scale \div 10 THEN Scale \div 10 ELSE Abs(lon2 - lon1),
                lat1, lat2)

\* calcularDistancia: not finite (Infinity) outside the box
calcularDistancia(lat1, lon1, lat2, lon2) ==
  BoxedDistance(Abs(lat2 - lat1), Abs(lon2 - lon1), lat1, lat2)

\* -------------------------------------------------------------- node-cache
\* A namespace is a function from the keys it holds to entries
\* [v |-> value, t |-> instant of expiry in ms]; stats.keys is the size of
\* its domain.
EmptyCache == [k \in {} |-> [v |-> <<>>, t |-> 0]]

\* _check comparing the expiry instant, in ms, with the clock in seconds
IsExpiredInSeconds(entry, t) == entry.t # 0 /\ entry.t < t \div MsPerSecond

\* NodeCache._check: an entry is dead once its expiry instant is in the past
IsExpired(entry, t) == entry.t # 0 /\ entry.t < t

CacheRemove(cache, key) == [k \in (DOMAIN cache) \ {key} |-> cache[k]]

\* NodeCache.get: the value, undefined (found = FALSE) for an unknown or
\* expired key
CacheGet(cache, key, t) ==
  IF key \in DOMAIN cache /\ ~IsExpired(cache[key], t)
    THEN [found |-> TRUE, v |-> cache[key].v]
    ELSE [found |-> FALSE, v |-> <<>>]

\* NodeCache.get deletes the entry it finds expired
CacheAfterGet(cache, key, t) ==
  IF key \in DOMAIN cache /\ IsExpired(cache[key], t)
    THEN CacheRemove(cache, key)
    ELSE cache

\* NodeCache.set throws ECACHEFULL when stats.keys has reached maxKeys
CacheIsFull(cache) == Cardinality(DOMAIN cache) >= maxKeys

\* NodeCache.set of a namespace that is not full; ttl = 0 stands for the
\* omitted argument, replaced by the namespace's stdTTL
CacheSet(cache, key, value, ttl, stdTTL, t) ==
  LET live == IF ttl # 0 THEN ttl ELSE stdTTL
  IN [k \in (DOMAIN cache) \cup {key} |->
        IF k = key THEN [v |-> value, t |-> t + live * MsPerSecond]
        ELSE cache[k]]

\* NodeCache._checkData: the periodic sweep drops every expired entry
CheckData(cache, t) ==
  [k \in {kk \in DOMAIN cache : ~IsExpired(cache[kk], t)} |-> cache[k]]

\* NodeCache.flushAll
FlushAll(cache) == EmptyCache

\* ------------------------------------------------------------ CacheService
getGeneral(cache, key, t) == CacheGet(cache, key, t)
setGeneral(cache, key, data, ttl, t) == CacheSet(cache, key, data, ttl, stdTTLGeneral, t)
deleteGeneral(cache, key) == CacheRemove(cache, key)
getLine(cache, key, t) == CacheGet(cache, key, t)
setLine(cache, key, data, ttl, t) == CacheSet(cache, key, data, ttl, stdTTLLine, t)
getPosition(cache, key, t) == CacheGet(cache, key, t)
setPosition(cache, key, data, ttl, t) == CacheSet(cache, key, data, ttl, stdTTLPosition, t)

\* -------------------------------------------------------------- line index
\* this.lineIndex is a Map: a sequence of [linha, buses] pairs in insertion
\* order, one pair per key
IndexKeys(index) == {index[i].linha : i \in 1..Len(index)}

IndexHas(index, linha) == linha \in IndexKeys(index)

IndexGet(index, linha) ==
  LET i == CHOOSE j \in 1..Len(index) : index[j].linha = linha
  IN index[i].buses

\* the key without the || 'unknown'
OrUnknownKeepEmpty(linha) == linha

\* bus.linha?.toString().trim().toLowerCase() || 'unknown'
OrUnknown(linha) == IF linha = <<>> THEN unknownLine ELSE linha

IndexKeyOf(bus) == OrUnknown(NormalizeLine(bus.linha))

\* one iteration of the loop of updateLineIndex, for the bus of key linha
IndexAdd(index, linha, bus) ==
  IF IndexHas(index, linha)
    THEN [i \in 1..Len(index) |->
            IF index[i].linha = linha
              THEN [linha |-> linha, buses |-> Append(index[i].buses, bus)]
              ELSE index[i]]
    ELSE Append(index, [linha |-> linha, buses |-> <<bus>>])

IndexPush(index, bus) == IndexAdd(index, IndexKeyOf(bus), bus)

RECURSIVE IndexFill(_, _)
IndexFill(index, buses) ==
  IF buses = <<>> THEN index
  ELSE IndexFill(IndexPush(index, Head(buses)), Tail(buses))

\* updateLineIndex stopping after the first bus
updateLineIndexPartly(buses) ==
  IndexFill(<<>>, IF buses = <<>> THEN <<>> ELSE <<Head(buses)>>)

\* updateLineIndex: clear, then index every bus
updateLineIndex(buses) == IndexFill(<<>>, buses)

\* the fallback loop of getBusByLine: every bucket whose key contains, or is
\* contained in, the query key, concatenated in Map order
RECURSIVE PartialMatches(_, _)
PartialMatches(index, linhaFormatada) ==
  IF index = <<>> THEN <<>>
  ELSE LET linhaKey == Head(index).linha
       IN (IF Includes(linhaKey, linhaFormatada) \/ Includes(linhaFormatada, linhaKey)
             THEN Head(index).buses ELSE <<>>)
          \o PartialMatches(Tail(index), linhaFormatada)

\* the lookup without the exact branch
LookupLinePartialOnly(index, linhaFormatada) ==
  PartialMatches(index, linhaFormatada)

\* exact bucket, else the partial matches
LookupLine(index, linhaFormatada) ==
  IF IndexHas(index, linhaFormatada)
    THEN IndexGet(index, linhaFormatada)
    ELSE PartialMatches(index, linhaFormatada)

\* ---------------------------------------------------------------- upstream
Line415 == <<"4", "1", "5">>
Line415Padded == <<" ", "4", "1", "5", " ">>
Line2aLower == <<"2", "a">>
Line2aUpper == <<"2", "A">>
Line2aFeed == <<"2", "A", " ">>

RawBus(ordem, linha, latitude, longitude, velocidade, datahora) ==
  [ordem |-> ordem, linha |-> linha, latitude |-> latitude,
   longitude |-> longitude, velocidade |-> velocidade, datahora |-> datahora]

\* the arrays the feed may answer with: vehicles observed 4 minutes and 60
\* minutes before the process started and at its start, with speeds 0, 3
\* and 5 km/h; they age as the clock advances
Feeds ==
  { << RawBus("A", Line415, LatCentro, LonCentro, 0, Epoch - 4 * MsPerMinute),
       RawBus("B", Line415, LatPerto, LonCentro, 0, Epoch),
       RawBus("C", Line2aFeed, LatLonge, LonCentro, 5, Epoch - 60 * MsPerMinute) >>,
    << RawBus("D", Line415, LatCentro, LonCentro, 0, Epoch - 60 * MsPerMinute),
       RawBus("E", <<>>, LatPerto, LonCentro, 3, Epoch - 4 * MsPerMinute) >> }

\* outcomes of axiosInstance.get: a network error, a payload that is not an
\* array, or an array
Responses ==
  { [status |-> "error", data |-> <<>>], [status |-> "invalid", data |-> <<>>] }
  \cup { [status |-> "ok", data |-> d] : d \in Feeds }

\* feeds whose lines contain one another ("41" in "415"), all vehicles
\* moving, and the arguments that hit a bucket exactly ("41"), only partly
\* ("4", "4150") or not at all ("9" against the first feed)
LookupFeeds ==
  { << RawBus("H", Line415, LatCentro, LonCentro, 5, Epoch),
       RawBus("I", <<"4", "1">>, LatPerto, LonCentro, 5, Epoch),
       RawBus("J", Line415Padded, LatPerto, LonCentro, 5, Epoch),
       RawBus("K", Line2aFeed, LatCentro, LonCentro, 5, Epoch) >>,
    << RawBus("L", <<"9">>, LatCentro, LonCentro, 5, Epoch) >> }

\* the arguments of the queries by position: latitude, longitude, radius
Centro == <<ParsedCoordinate[LatCentro], ParsedCoordinate[LonCentro], 500>>

\* the feeds of the queries by position: one moving vehicle 499 m north of
\* Centro, or two moving vehicles at Centro and 355 m south of it, or one
\* moving vehicle 16.7 km north of Centro
PositionFeeds ==
  { << RawBus("G", Line415, LatBorda, LonCentro, 5, Epoch - 60 * MsPerMinute) >>,
    << RawBus("P", Line415, LatCentro, LonCentro, 5, Epoch - 60 * MsPerMinute),
       RawBus("Q", Line415, LatPerto, LonCentro, 5, Epoch - 60 * MsPerMinute) >>,
    << RawBus("W", Line415, LatAlem, LonCentro, 5, Epoch - 60 * MsPerMinute) >> }

PositionResponses ==
  { [status |-> "error", data |-> <<>>] }
  \cup { [status |-> "ok", data |-> d] : d \in PositionFeeds }

\* the feeds of the statistics: an empty array; two well-formed records; a
\* record without latitude and speed whose longitude is no number, with one
\* without datahora whose latitude is no number; a record beyond the pole
\* with a negative speed
StatsFeeds ==
  { <<>>,
    << RawBus("S", Line415, LatCentro, LonCentro, 5, Epoch - 60 * MsPerMinute),
       RawBus("T", Line2aFeed, LatPerto, LonCentro, 0, Epoch) >>,
    << [ordem |-> "M", linha |-> Line415, longitude |-> Garbage, datahora |-> Epoch],
       [ordem |-> "N", linha |-> <<>>, latitude |-> Garbage, longitude |-> LonCentro,
        velocidade |-> 5] >>,
    << RawBus("O", Line415, LatFora, LonCentro, -5, Epoch) >> }

StatsResponses ==
  { [status |-> "error", data |-> <<>>] }
  \cup { [status |-> "ok", data |-> d] : d \in StatsFeeds }

\* Centro with two radii, and a centre 4.4 m south of Centro that rounds to
\* the same four decimals
PositionRadii == {400, 500}
PositionQueries ==
  { <<ParsedCoordinate[LatCentro], ParsedCoordinate[LonCentro], r>> : r \in PositionRadii }
  \cup { <<ParsedCoordinate[LatCentro] - 4, ParsedCoordinate[LonCentro], 500>> }

\* ------------------------------------------------------------------- state
VARIABLES
  now,            \* Date.now()
  generalCache,   \* namespace of the general keys
  lineCache,      \* namespace of the per-line results
  positionCache,  \* namespace of the per-position results
  lineIndex,      \* SppoService.lineIndex
  lastFetchTime,  \* SppoService.lastFetchTime, 0 for null
  inflight,       \* calls suspended on their upstream request
  cleared,        \* "no", or clearCaches ran and no getAllBusData call started
                  \* since: "quiet" with no upstream request in flight when it
                  \* ran, else "racing"
  answered,       \* the last answer of getBusByLine, while it is recent
  obs,            \* what the last step did
  worker,         \* the service worker of the front end (sw.js)
  app             \* the page of the front end (BusMonitorApp)

vars == <<now, generalCache, lineCache, positionCache, lineIndex,
          lastFetchTime, inflight, cleared, answered, obs, worker, app>>

\* the state of the server, which no step of the front end touches
server == <<now, generalCache, lineCache, positionCache, lineIndex,
            lastFetchTime, inflight, cleared, answered, obs>>

\* op: the operation; phase: "return", "throw" or "await" (suspended on the
\* upstream request); resumed: the step is the part after the request;
\* arg, pos, t0: the line or position argument and the instant the call
\* started; v: the value returned; via: the path taken; all, allv: outcome and value of the
\* getAllBusData call made in the step ("none" without one); upstream: the
\* call issued an upstream request; status, data: the upstream response;
\* afterClear: the value of cleared when the getAllBusData call started
Idle ==
  [op |-> "none", phase |-> "none", resumed |-> FALSE, arg |-> <<>>,
   pos |-> <<>>, t0 |-> 0,
   v |-> <<>>, via |-> "none", all |-> "none", allv |-> <<>>,
   upstream |-> FALSE, status |-> "none", data |-> <<>>, afterClear |-> "no",
   http |-> [status |-> 0, total |-> 0]]

\* errorHandler taking an error without status for a missing resource
errorHandlerNotFound(err) ==
  IF err.name = "ValidationError" THEN 400
  ELSE IF err.status # 0 THEN err.status
  ELSE 404

\* errorHandler: the status of the response to an error passed to next();
\* an error carries its name and its status, 0 for none
errorHandler(err) ==
  IF err.name = "ValidationError" THEN 400
  ELSE IF err.name = "UnauthorizedError" THEN 401
  ELSE IF err.name = "ForbiddenError" THEN 403
  ELSE IF err.name = "NotFoundError" THEN 404
  ELSE IF err.status # 0 THEN err.status
  ELSE 500

\* the end of getBusesByLine and getBusesByPosition, the only callers of
\* getBusByLine and getBusByPosition: 404 for an empty result, else the data
\* with meta.total; what the service throws (the Error of getAllBusData or
\* the ECACHEFULL of node-cache, neither with a status) goes to errorHandler
Respond(o) ==
  [o EXCEPT !.http =
     IF o.phase = "throw"
       THEN [status |-> errorHandler([name |-> IF o.all = "throw" THEN "Error"
                                                ELSE "ECACHEFULL",
                                      status |-> 0]),
             total |-> 0]
     ELSE IF o.phase = "return"
       THEN IF Len(o.v) = 0 THEN [status |-> 404, total |-> 0]
            ELSE [status |-> 200, total |-> Len(o.v)]
     ELSE o.http]

NoAnswer == [some |-> FALSE, arg |-> <<>>, t |-> 0, v |-> <<>>]

\* ------------------------------------------------- state of the front end
\* the requests under /api/ that reach the fetch listener of sw.js
SwRequests == {"/api/sppo", "/api/sppo/stats"}

\* a Response is [kind, status, body]; kind "none" is the undefined of
\* cache.match, kind "rejected" the rejection of fetch
NoResponse == [kind |-> "none", status |-> 0, body |-> 0]

\* the service worker after activate: the dynamic cache holds nothing
\* (install fills the static cache only); pending are the network requests
\* under way; last is what the last step of the service worker did:
\* returned is what respondWith gave the page, network what fetch settled
\* with, started that a network request was started, put that cache.put ran
InstalledWorker ==
  [cache |-> [r \in SwRequests |-> NoResponse], pending |-> <<>>,
   last |-> [op |-> "none", request |-> "", returned |-> NoResponse,
             network |-> NoResponse, background |-> FALSE, started |-> FALSE,
             put |-> FALSE]]

\* BusMonitorApp after its constructor.  clock is the clock of the page in
\* ms; errorVisible: #errorMessage is not hidden; timers: the instants at
\* which the pending setTimeout callbacks of showError run; shownAt: the
\* instant of the last showError (-1 before the first); shows: the number of
\* showError calls; dismissed: the user clicked #dismissError since; rows: the rows of tbody; buses: the argument
\* of the last updateTable; scrollListener: a listener is installed;
\* markers: the values of this.markers, at most one for an ordem; onMap: the
\* markers that are layers of the map; cluster: the layers of markerCluster;
\* calls: the number of updateMap calls; left: what clearMarkers left on the
\* map in the last updateMap
NewApp ==
  [clock |-> 0, errorVisible |-> FALSE, timers |-> {}, shownAt |-> -1,
   shows |-> 0, dismissed |-> FALSE,
   rows |-> <<>>, buses |-> <<>>, currentBuses |-> <<>>, currentPage |-> 0,
   scrollListener |-> FALSE,
   markers |-> {}, onMap |-> {}, cluster |-> {}, markerCluster |-> FALSE,
   calls |-> 0, left |-> {}]

Init ==
  /\ now = Epoch
  /\ generalCache = EmptyCache
  /\ lineCache = EmptyCache
  /\ positionCache = EmptyCache
  /\ lineIndex = <<>>
  /\ lastFetchTime = 0
  /\ inflight = <<>>
  /\ cleared = "no"
  /\ answered = NoAnswer
  /\ obs = Idle
  /\ worker = InstalledWorker
  /\ app = NewApp

\* ----------------------------------------------------------- getAllBusData
\* GetAllStart with the throttle as a hard block: inside the interval a call
\* without a stale snapshot returns nothing instead of fetching
GetAllStartHardBlock(general, lft, t) ==
  LET cachedData == getGeneral(general, cacheKey, t)
      g1 == CacheAfterGet(general, cacheKey, t)
      staleData == getGeneral(g1, staleKey, t)
      g2 == CacheAfterGet(g1, staleKey, t)
  IN IF cachedData.found
       THEN [kind |-> "return", via |-> "general", v |-> cachedData.v, general |-> g1]
     ELSE IF lft # 0 /\ (t - lft) < fetchInterval
       THEN [kind |-> "return", via |-> "throttle", v |-> staleData.v, general |-> g2]
     ELSE [kind |-> "await", via |-> "upstream", v |-> <<>>, general |-> g1]

\* lines 80-96: the part of getAllBusData before the upstream request;
\* kind = "return" when the call answers from the general namespace
GetAllStart(general, lft, t) ==
  LET cachedData == getGeneral(general, cacheKey, t)
      g1 == CacheAfterGet(general, cacheKey, t)
      staleData == getGeneral(g1, staleKey, t)
      g2 == CacheAfterGet(g1, staleKey, t)
  IN IF cachedData.found
       THEN [kind |-> "return", via |-> "general", v |-> cachedData.v, general |-> g1]
     ELSE IF lft # 0 /\ (t - lft) < fetchInterval
       THEN IF staleData.found
              THEN [kind |-> "return", via |-> "throttle", v |-> staleData.v, general |-> g2]
              ELSE [kind |-> "await", via |-> "upstream", v |-> <<>>, general |-> g2]
     ELSE [kind |-> "await", via |-> "upstream", v |-> <<>>, general |-> g1]

\* the catch block recording the failed attempt as a fetch
GetAllCatchStamped(general, index, lft, t) ==
  LET staleData == getGeneral(general, staleKey, t)
      g1 == CacheAfterGet(general, staleKey, t)
  IN [ok |-> staleData.found, v |-> staleData.v,
      via |-> IF staleData.found THEN "fallback" ELSE "throw",
      general |-> g1, index |-> index, lft |-> t]

\* the catch block without its fallback
GetAllCatchRethrow(general, index, lft, t) ==
  [ok |-> FALSE, v |-> <<>>, via |-> "throw",
   general |-> general, index |-> index, lft |-> lft]

\* lines 137-148: the catch block
GetAllCatch(general, index, lft, t) ==
  LET staleData == getGeneral(general, staleKey, t)
      g1 == CacheAfterGet(general, staleKey, t)
  IN [ok |-> staleData.found, v |-> staleData.v,
      via |-> IF staleData.found THEN "fallback" ELSE "throw",
      general |-> g1, index |-> index, lft |-> lft]

\* GetAllStoreStale recording the instant the response arrived
GetAllStoreStaleLate(g1, index, lft, t0, t, activeBuses) ==
  [ok |-> TRUE, v |-> activeBuses, via |-> "fetch",
   general |-> setGeneral(g1, staleKey, activeBuses, ttlStale, t),
   index |-> updateLineIndex(activeBuses), lft |-> t]

\* lines 127-135: the stale key is set, the index rebuilt and the instant
\* recorded; a throw of set enters the catch block
GetAllStoreStale(g1, index, lft, t0, t, activeBuses) ==
  IF CacheIsFull(g1) THEN GetAllCatch(g1, index, lft, t)
  ELSE [ok |-> TRUE, v |-> activeBuses, via |-> "fetch",
        general |-> setGeneral(g1, staleKey, activeBuses, ttlStale, t),
        index |-> updateLineIndex(activeBuses), lft |-> t0]

\* GetAllStore leaving a live general entry as it is
GetAllStoreFirstWins(general, index, lft, t0, t, activeBuses) ==
  IF getGeneral(general, cacheKey, t).found
    THEN GetAllStoreStale(general, index, lft, t0, t, activeBuses)
    ELSE GetAllStoreStale(setGeneral(general, cacheKey, activeBuses, ttlAll, t),
                          index, lft, t0, t, activeBuses)

\* lines 125-126: the general key is set
GetAllStore(general, index, lft, t0, t, activeBuses) ==
  IF CacheIsFull(general) THEN GetAllCatch(general, index, lft, t)
  ELSE GetAllStoreStale(setGeneral(general, cacheKey, activeBuses, ttlAll, t),
                        index, lft, t0, t, activeBuses)

\* GetAllFinish leaving a stale snapshot that is there as it is
GetAllFinishKeepStale(general, index, lft, t0, t, response) ==
  IF response.status # "ok" THEN GetAllCatch(general, index, lft, t)
  ELSE LET fin == GetAllStore(general, index, lft, t0, t, ActiveBuses(response.data, t))
       IN IF staleKey \in DOMAIN general
            THEN [fin EXCEPT !.general = [fin.general EXCEPT ![staleKey] = general[staleKey]]]
            ELSE fin

\* lines 99-135: the part of getAllBusData after the upstream request, for
\* a call that read Date.now() = t0 before it and resumes at instant t
GetAllFinish(general, index, lft, t0, t, response) ==
  IF response.status # "ok" THEN GetAllCatch(general, index, lft, t)
  ELSE GetAllStore(general, index, lft, t0, t, ActiveBuses(response.data, t))

Suspended(op, arg, pos, afterClear) ==
  [op |-> op, arg |-> arg, pos |-> pos, t0 |-> now, afterClear |-> afterClear]

RemoveAt(seq, i) == SubSeq(seq, 1, i - 1) \o SubSeq(seq, i + 1, Len(seq))

\* GET /api/sppo: getAllBusData up to its return or its upstream request
GetAllBusData ==
  \E start \in {GetAllStart(generalCache, lastFetchTime, now)} :
    /\ start.kind = "await" => Len(inflight) < MaxInFlight
    /\ generalCache' = start.general
    /\ inflight' = IF start.kind = "await"
                     THEN Append(inflight, Suspended("getAllBusData", <<>>, <<>>, cleared))
                     ELSE inflight
    /\ cleared' = "no"
    /\ obs' = [Idle EXCEPT !.op = "getAllBusData",
                 !.phase = IF start.kind = "await" THEN "await" ELSE "return",
                 !.t0 = now, !.v = start.v, !.via = start.via,
                 !.all = start.via, !.allv = start.v,
                 !.upstream = (start.kind = "await"), !.afterClear = cleared]
    /\ UNCHANGED <<worker, app, now, lineCache, positionCache, lineIndex, lastFetchTime, answered>>

\* the upstream request of a suspended getAllBusData call settles
CompleteGetAllBusData(i, response) ==
  /\ inflight[i].op = "getAllBusData"
  /\ \E call \in {inflight[i]} :
     \E fin \in {GetAllFinish(generalCache, lineIndex, lastFetchTime, call.t0, now, response)} :
       /\ generalCache' = fin.general
       /\ lineIndex' = fin.index
       /\ lastFetchTime' = fin.lft
       /\ inflight' = RemoveAt(inflight, i)
       /\ obs' = [Idle EXCEPT !.op = "getAllBusData",
                    !.phase = IF fin.ok THEN "return" ELSE "throw",
                    !.resumed = TRUE, !.t0 = call.t0, !.v = fin.v, !.via = fin.via,
                    !.all = fin.via, !.allv = fin.v, !.upstream = TRUE,
                    !.status = response.status, !.data = response.data,
                    !.afterClear = call.afterClear]
       /\ UNCHANGED <<worker, app, now, lineCache, positionCache, cleared, answered>>

\* ------------------------------------------------------------ getBusByLine
\* `line_active_${linha}`
LineCacheKey(linha) == <<"line_active_">> \o linha

\* the answer v given to the call of argument linha made at instant t0
Answer(linha, t0, v) == [some |-> TRUE, arg |-> linha, t |-> t0, v |-> v]

\* the result stored without its ttl argument
StoreLineStdTTL(cache, linha, filteredData, t) ==
  IF CacheIsFull(cache)
    THEN [ok |-> FALSE, cache |-> cache]
    ELSE [ok |-> TRUE,
          cache |-> setLine(cache, LineCacheKey(linha), filteredData, 0, t)]

\* lines 225-229: store the result and return it; setLine throws when the
\* namespace is full and the catch block rethrows
StoreLine(cache, linha, filteredData, t) ==
  IF CacheIsFull(cache)
    THEN [ok |-> FALSE, cache |-> cache]
    ELSE [ok |-> TRUE,
          cache |-> setLine(cache, LineCacheKey(linha), filteredData, ttlLineResult, t)]

\* GET /api/sppo/linha/:linha: getBusByLine up to its return, its throw or
\* the upstream request of the getAllBusData call of line 211.  Without an
\* upstream request the index searched again is the one already searched
GetBusByLine(linha) ==
  \E cachedData \in {getLine(lineCache, LineCacheKey(linha), now)},
     lc1 \in {CacheAfterGet(lineCache, LineCacheKey(linha), now)},
     filteredData \in {LookupLine(lineIndex, NormalizeLine(linha))},
     start \in {GetAllStart(generalCache, lastFetchTime, now)} :
  \E retry \in {~cachedData.found /\ filteredData = <<>>},
     result \in {IF cachedData.found THEN cachedData.v ELSE filteredData} :
  \E await \in {retry /\ start.kind = "await"},
     store \in {StoreLine(lc1, linha, result, now)} :
  \E phase \in {IF await THEN "await"
                ELSE IF cachedData.found \/ store.ok THEN "return" ELSE "throw"} :
    /\ await => Len(inflight) < MaxInFlight
    /\ lineCache' = IF cachedData.found \/ await THEN lc1 ELSE store.cache
    /\ generalCache' = IF retry THEN start.general ELSE generalCache
    /\ inflight' = IF await
                     THEN Append(inflight, Suspended("getBusByLine", linha, <<>>, cleared))
                     ELSE inflight
    /\ cleared' = IF retry THEN "no" ELSE cleared
    /\ answered' = IF phase = "return" THEN Answer(linha, now, result) ELSE answered
    /\ obs' = Respond([Idle EXCEPT !.op = "getBusByLine", !.phase = phase,
                 !.arg = linha, !.t0 = now,
                 !.v = IF phase = "return" THEN result ELSE <<>>,
                 !.via = IF cachedData.found THEN "line_cache"
                         ELSE IF ~retry THEN "index"
                         ELSE IF await THEN "upstream" ELSE "retry",
                 !.all = IF retry THEN start.via ELSE "none",
                 !.allv = IF retry THEN start.v ELSE <<>>,
                 !.upstream = await,
                 !.afterClear = IF retry THEN cleared ELSE "no"])
    /\ UNCHANGED <<worker, app, now, positionCache, lineIndex, lastFetchTime>>

\* the upstream request of the getAllBusData call of line 211 settles: the
\* call throws, or the lookup is repeated on the index and stored
CompleteGetBusByLine(i, response) ==
  /\ inflight[i].op = "getBusByLine"
  /\ \E call \in {inflight[i]} :
     \E fin \in {GetAllFinish(generalCache, lineIndex, lastFetchTime, call.t0, now, response)} :
     \E filteredData \in {LookupLine(fin.index, NormalizeLine(call.arg))} :
     \E store \in {StoreLine(lineCache, call.arg, filteredData, now)} :
     \E phase \in {IF fin.ok /\ store.ok THEN "return" ELSE "throw"} :
       /\ generalCache' = fin.general
       /\ lineIndex' = fin.index
       /\ lastFetchTime' = fin.lft
       /\ lineCache' = IF fin.ok THEN store.cache ELSE lineCache
       /\ inflight' = RemoveAt(inflight, i)
       /\ answered' = IF phase = "return"
                        THEN Answer(call.arg, call.t0, filteredData)
                        ELSE answered
       /\ obs' = Respond([Idle EXCEPT !.op = "getBusByLine", !.phase = phase,
                    !.resumed = TRUE, !.arg = call.arg, !.t0 = call.t0,
                    !.v = IF phase = "return" THEN filteredData ELSE <<>>,
                    !.via = "retry", !.all = fin.via, !.allv = fin.v,
                    !.upstream = TRUE, !.status = response.status,
                    !.data = response.data, !.afterClear = call.afterClear])
       /\ UNCHANGED <<worker, app, now, positionCache, cleared>>

\* -------------------------------------------------------- getBusByPosition
\* Number.prototype.toFixed(4) of a coordinate: the nearest multiple of
\* 0.0001, the one away from zero of two
ToFixed(x) ==
  LET unit == Pow10(Decimals - KeyDecimals)
      n == (Abs(x) + (unit \div 2)) \div unit
  IN IF x < 0 THEN -n ELSE n

\* `position_${lat.toFixed(4)}_${lon.toFixed(4)}_${raioKm}`
PositionCacheKey(lat, lon, raio) == <<"position_", ToFixed(lat), ToFixed(lon), raio>>

\* dentroDoRaio taken for the vehicles at the radius or beyond it
BeyondRadius(distancia, raio) == distancia.finite /\ distancia.m >= raio

\* lines 263-270: dentroDoRaio
WithinRadius(distancia, raio) == distancia.finite /\ distancia.m <= raio

\* the filter of lines 258-279 on one bus; a record that normalizeBusData
\* returned as it came has no latitude or a string with a comma for one,
\* whose distance is NaN and within no radius
InRange(bus, lat, lon, raio, agora) ==
  /\ Has(bus, "dataHora")
  /\ bus.latitude # 0
  /\ bus.longitude # 0
  /\ WithinRadius(calcularDistancia(lat, lon, bus.latitude, bus.longitude), raio)
  /\ IsActive(bus, agora)

\* allData.filter(...)
FilterByPosition(allData, lat, lon, raio, agora) ==
  SelectSeq(allData, LAMBDA bus : InRange(bus, lat, lon, raio, agora))

\* lines 281-285: store the result and return it; setPosition throws when
\* the namespace is full and the catch block rethrows
StorePosition(cache, key, filteredData, t) ==
  IF CacheIsFull(cache)
    THEN [ok |-> FALSE, cache |-> cache]
    ELSE [ok |-> TRUE,
          cache |-> setPosition(cache, key, filteredData, ttlPositionResult, t)]

\* GET /api/sppo/posicao: getBusByPosition up to its return, its throw or the
\* upstream request of the getAllBusData call of line 255
GetBusByPosition(lat, lon, raio) ==
  \E key \in {PositionCacheKey(lat, lon, raio)},
     start \in {GetAllStart(generalCache, lastFetchTime, now)} :
  \E cachedData \in {getPosition(positionCache, key, now)},
     pc1 \in {CacheAfterGet(positionCache, key, now)},
     filteredData \in {FilterByPosition(start.v, lat, lon, raio, now)} :
  \E await \in {~cachedData.found /\ start.kind = "await"},
     result \in {IF cachedData.found THEN cachedData.v ELSE filteredData} :
  \E store \in {StorePosition(pc1, key, result, now)} :
  \E phase \in {IF await THEN "await"
                ELSE IF cachedData.found \/ store.ok THEN "return" ELSE "throw"} :
    /\ await => Len(inflight) < MaxInFlight
    /\ positionCache' = IF cachedData.found \/ await THEN pc1 ELSE store.cache
    /\ generalCache' = IF cachedData.found THEN generalCache ELSE start.general
    /\ inflight' = IF await
                     THEN Append(inflight,
                            Suspended("getBusByPosition", <<>>, <<lat, lon, raio>>, cleared))
                     ELSE inflight
    /\ cleared' = IF cachedData.found THEN cleared ELSE "no"
    /\ obs' = Respond([Idle EXCEPT !.op = "getBusByPosition", !.phase = phase,
                 !.pos = <<lat, lon, raio>>, !.t0 = now,
                 !.v = IF phase = "return" THEN result ELSE <<>>,
                 !.via = IF cachedData.found THEN "position_cache"
                         ELSE IF await THEN "upstream" ELSE "filter",
                 !.all = IF cachedData.found THEN "none" ELSE start.via,
                 !.allv = IF cachedData.found THEN <<>> ELSE start.v,
                 !.upstream = await,
                 !.afterClear = IF cachedData.found THEN "no" ELSE cleared])
    /\ UNCHANGED <<worker, app, now, lineCache, lineIndex, lastFetchTime, answered>>

\* the upstream request of the getAllBusData call of line 255 settles: the
\* call throws, or the answer is filtered and stored
CompleteGetBusByPosition(i, response) ==
  /\ inflight[i].op = "getBusByPosition"
  /\ \E call \in {inflight[i]} :
     \E fin \in {GetAllFinish(generalCache, lineIndex, lastFetchTime, call.t0, now, response)} :
     \E filteredData \in {FilterByPosition(fin.v, call.pos[1], call.pos[2], call.pos[3], now)} :
     \E store \in {StorePosition(positionCache,
                                 PositionCacheKey(call.pos[1], call.pos[2], call.pos[3]),
                                 filteredData, now)} :
     \E phase \in {IF fin.ok /\ store.ok THEN "return" ELSE "throw"} :
       /\ generalCache' = fin.general
       /\ lineIndex' = fin.index
       /\ lastFetchTime' = fin.lft
       /\ positionCache' = IF fin.ok THEN store.cache ELSE positionCache
       /\ inflight' = RemoveAt(inflight, i)
       /\ obs' = Respond([Idle EXCEPT !.op = "getBusByPosition", !.phase = phase,
                    !.resumed = TRUE, !.pos = call.pos, !.t0 = call.t0,
                    !.v = IF phase = "return" THEN filteredData ELSE <<>>,
                    !.via = "filter", !.all = fin.via, !.allv = fin.v,
                    !.upstream = TRUE, !.status = response.status,
                    !.data = response.data, !.afterClear = call.afterClear])
       /\ UNCHANGED <<worker, app, now, lineCache, cleared, answered>>

\* ------------------------------------------------------ GET /api/sppo/posicao
\* The query of a request is a record of its parameters, each a string; a
\* parameter the request does not carry is left out of the record.
\* Joi.number() converts a string that is a number from end to end: a sign,
\* digits, and a point followed by digits
NumericString(s) ==
  LET body == IF s # <<>> /\ Head(s) \in {"-", "+"} THEN Tail(s) ELSE s
      ip == TakeDigits(body)
      rest == SubSeq(body, Len(ip) + 1, Len(body))
      fp == IF rest # <<>> /\ Head(rest) = "." THEN TakeDigits(Tail(rest)) ELSE <<>>
  IN /\ Len(ip) + Len(fp) > 0
     /\ Len(body) = Len(ip) + Len(fp) + (IF rest # <<>> THEN 1 ELSE 0)
     /\ rest # <<>> => Head(rest) = "."

NaN == [ok |-> FALSE, n |-> 0]

\* Joi.number().min(lo).max(hi) fails on a value that is no number (NaN
\* included) or lies outside the bounds, here in units of 1/Scale
JoiNumberError(p, lo, hi) == ~p.ok \/ p.n < lo \/ p.n > hi

JoiCoerce(s) == IF NumericString(s) THEN ParseFloat(s) ELSE NaN

\* validateQuery(positionSchema): the schema on req.query; lat and lon are
\* required, raio may be left out.  The value Joi returns is dropped
validateQuery(query) ==
  \/ ~Has(query, "lat")
  \/ JoiNumberError(JoiCoerce(query.lat), -90 * Scale, 90 * Scale)
  \/ ~Has(query, "lon")
  \/ JoiNumberError(JoiCoerce(query.lon), -180 * Scale, 180 * Scale)
  \/ /\ Has(query, "raio")
     /\ JoiNumberError(JoiCoerce(query.raio), Scale \div 10, 50 * Scale)

\* lines 251-255 of the controller: the object it validates, each parameter
\* through parseFloat, which gives NaN for a parameter left out
positionValue(query) ==
  [lat |-> IF Has(query, "lat") THEN ParseFloat(ReplaceComma(query.lat)) ELSE NaN,
   lon |-> IF Has(query, "lon") THEN ParseFloat(ReplaceComma(query.lon)) ELSE NaN,
   raio |-> IF Has(query, "raio") THEN ParseFloat(query.raio) ELSE NaN]

\* the schema of the controller on that object; default(1) applies to an
\* undefined raio only, which parseFloat never returns
positionError(value) ==
  \/ JoiNumberError(value.lat, -90 * Scale, 90 * Scale)
  \/ JoiNumberError(value.lon, -180 * Scale, 180 * Scale)
  \/ JoiNumberError(value.raio, Scale \div 10, 50 * Scale)

\* the queries of GET /api/sppo/posicao: latitudes, longitudes and radii
\* inside, at the edge of and outside the bounds, no radius, no latitude
\* and no longitude
RouteQueries ==
  LET RouteLats == { <<"-", "2", "2", ".", "9", "0", "6", "8">>, <<"9", "0", ".", "5">> }
      RouteLons == { <<"-", "4", "3", ".", "1", "7", "2", "9">>, <<"-", "1", "8", "0", ".", "5">> }
      RouteRaios == { <<"1">>, <<"0", ".", "1">>, <<"5", "0">>, <<"0", ".", "0", "5">>, <<"5", "0", ".", "5">> }
  IN
  { [lat |-> a, lon |-> b] : a \in RouteLats, b \in RouteLons }
  \cup { [lat |-> a, lon |-> b, raio |-> r] : a \in RouteLats, b \in RouteLons, r \in RouteRaios }
  \cup { [lon |-> <<"-", "4", "3", ".", "1", "7", "2", "9">>],
         [lat |-> <<"-", "2", "2", ".", "9", "0", "6", "8">>, raio |-> <<"1">>] }

\* the middleware and lines 251-265 of the controller over the queries,
\* evaluated once
Validated ==
  [query \in RouteQueries |->
     [value |-> positionValue(query),
      error |-> validateQuery(query) \/ positionError(positionValue(query))]]

\* GET /api/sppo/posicao: the middleware, then getBusesByPosition up to its
\* 400 or through getBusByPosition (the radius in metres)
Posicao(query) ==
  \E value \in {Validated[query].value} :
    IF Validated[query].error
      THEN /\ obs' = [Idle EXCEPT !.op = "posicao", !.phase = "return",
                        !.arg = <<query>>, !.t0 = now, !.status = "400",
                        !.http = [status |-> 400, total |-> 0]]
           /\ UNCHANGED <<worker, app, now, generalCache, lineCache, positionCache, lineIndex,
                          lastFetchTime, inflight, cleared, answered>>
      ELSE GetBusByPosition(value.lat.n, value.lon.n, value.raio.n \div 100)

\* the :linha segments of GET /api/sppo/linha/:linha: none, and names of
\* 20 and of 21 characters
RouteLinhas ==
  { <<>>, [i \in 1..20 |-> "4"], [i \in 1..21 |-> "4"] }

\* the route of the lines with no validation
LinhaUnvalidated(linha) == GetBusByLine(linha)

\* GET /api/sppo/linha/:linha.  A path with no :linha segment matches no
\* route and is answered by notFoundHandler through errorHandler;
\* validateParams(linhaSchema) passes a name of less than 1 or more than 20
\* characters to errorHandler as a ValidationError of status 400 (the
\* controller, lines 130-142, tests the same and is never reached with
\* one); else getBusesByLine calls getBusByLine
Linha(linha) ==
  IF linha = <<>> \/ Len(linha) < 1 \/ Len(linha) > 20
    THEN /\ obs' = [Idle EXCEPT !.op = IF linha = <<>> THEN "notFound" ELSE "linha",
                      !.phase = "return", !.arg = linha, !.t0 = now,
                      !.http = [status |->
                                  errorHandler(IF linha = <<>>
                                                 THEN [name |-> "NotFoundError", status |-> 404]
                                                 ELSE [name |-> "ValidationError", status |-> 400]),
                                total |-> 0]]
         /\ UNCHANGED <<worker, app, now, generalCache, lineCache, positionCache, lineIndex,
                        lastFetchTime, inflight, cleared, answered>>
    ELSE GetBusByLine(linha)

\* ---------------------------------------------------------------- getStats
desconhecida == <<"D", "e", "s", "c", "o", "n", "h", "e", "c", "i", "d", "a">>

\* bus.linha || 'Desconhecida'
StatsLineOf(bus) == IF bus.linha = <<>> THEN desconhecida ELSE bus.linha

\* lines 340-343: stats.byLine
CountByLine(data) ==
  [l \in {StatsLineOf(data[k]) : k \in 1..Len(data)} |->
     Cardinality({k \in 1..Len(data) : StatsLineOf(data[k]) = l})]

\* line 346: the reduce over bus.velocidade || 0
RECURSIVE TotalSpeed(_)
TotalSpeed(data) ==
  IF data = <<>> THEN 0
  ELSE (IF Has(Head(data), "velocidade") THEN Head(data).velocidade ELSE 0)
       + TotalSpeed(Tail(data))

\* line 347: parseFloat((totalSpeed / data.length).toFixed(2)), in hundredths
AvgSpeed(totalSpeed, length) ==
  LET q == (2 * 100 * Abs(totalSpeed) + length) \div (2 * length)
  IN IF totalSpeed < 0 THEN -q ELSE q

\* line 350-351: Math.max over the instants of records that all have one
RECURSIVE MaxDataHora(_)
MaxDataHora(data) ==
  IF Len(data) = 1 THEN Head(data).dataHora
  ELSE LET rest == MaxDataHora(Tail(data))
       IN IF Head(data).dataHora > rest THEN Head(data).dataHora ELSE rest

NoStats == [total |-> 0, byLine |-> <<>>, avgSpeed |-> 0, lastUpdate |-> 0]

\* getStatsOf with the test of line 338 left out: Math.max() of no instants
\* is -Infinity, of which toISOString() throws
getStatsOfUnguarded(data) ==
  IF data = <<>> \/ \E k \in 1..Len(data) : ~Has(data[k], "dataHora")
    THEN [ok |-> FALSE, stats |-> NoStats]
    ELSE [ok |-> TRUE,
          stats |-> [total |-> Len(data), byLine |-> CountByLine(data),
                     avgSpeed |-> AvgSpeed(TotalSpeed(data), Len(data)),
                     lastUpdate |-> MaxDataHora(data)]]

\* lines 331-354: the statistics of the records getAllBusData returned;
\* lastUpdate 0 stands for null.  new Date(undefined).getTime() is NaN for
\* a record without dataHora, Math.max is then NaN and toISOString() throws
getStatsOf(data) ==
  IF data = <<>> THEN [ok |-> TRUE, stats |-> NoStats]
  ELSE IF \E k \in 1..Len(data) : ~Has(data[k], "dataHora")
    THEN [ok |-> FALSE, stats |-> NoStats]
    ELSE [ok |-> TRUE,
          stats |-> [total |-> Len(data), byLine |-> CountByLine(data),
                     avgSpeed |-> AvgSpeed(TotalSpeed(data), Len(data)),
                     lastUpdate |-> MaxDataHora(data)]]

\* GET /api/sppo/stats: getStats up to its return, its throw or the upstream
\* request of the getAllBusData call of line 329
GetStats ==
  \E start \in {GetAllStart(generalCache, lastFetchTime, now)} :
  \E res \in {getStatsOf(start.v)} :
  \E phase \in {IF start.kind = "await" THEN "await"
                ELSE IF res.ok THEN "return" ELSE "throw"} :
    /\ phase = "await" => Len(inflight) < MaxInFlight
    /\ generalCache' = start.general
    /\ inflight' = IF phase = "await"
                     THEN Append(inflight, Suspended("getStats", <<>>, <<>>, cleared))
                     ELSE inflight
    /\ cleared' = "no"
    /\ obs' = [Idle EXCEPT !.op = "getStats", !.phase = phase, !.t0 = now,
                 !.v = IF phase = "return" THEN <<res.stats>> ELSE <<>>,
                 !.via = IF phase = "await" THEN "upstream" ELSE "stats",
                 !.all = start.via, !.allv = start.v,
                 !.upstream = (phase = "await"), !.afterClear = cleared]
    /\ UNCHANGED <<worker, app, now, lineCache, positionCache, lineIndex, lastFetchTime, answered>>

\* the upstream request of the getAllBusData call of line 329 settles: the
\* call throws, or the statistics of its answer are computed
CompleteGetStats(i, response) ==
  /\ inflight[i].op = "getStats"
  /\ \E call \in {inflight[i]} :
     \E fin \in {GetAllFinish(generalCache, lineIndex, lastFetchTime, call.t0, now, response)} :
     \E res \in {getStatsOf(fin.v)} :
     \E phase \in {IF fin.ok /\ res.ok THEN "return" ELSE "throw"} :
       /\ generalCache' = fin.general
       /\ lineIndex' = fin.index
       /\ lastFetchTime' = fin.lft
       /\ inflight' = RemoveAt(inflight, i)
       /\ obs' = [Idle EXCEPT !.op = "getStats", !.phase = phase,
                    !.resumed = TRUE, !.t0 = call.t0,
                    !.v = IF phase = "return" THEN <<res.stats>> ELSE <<>>,
                    !.via = "stats", !.all = fin.via, !.allv = fin.v,
                    !.upstream = TRUE, !.status = response.status,
                    !.data = response.data, !.afterClear = call.afterClear]
       /\ UNCHANGED <<worker, app, now, lineCache, positionCache, cleared, answered>>

\* ------------------------------------------------------------- clearCaches
\* clearCaches leaving the stale snapshot in place
\* clearCaches emptying the index only
ClearCachesIndexOnly ==
  /\ lineIndex' = <<>>
  /\ cleared' = IF inflight = <<>> THEN "quiet" ELSE "racing"
  /\ obs' = [Idle EXCEPT !.op = "clearCaches", !.phase = "return", !.t0 = now]
  /\ UNCHANGED <<worker, app, now, generalCache, lineCache, positionCache, lastFetchTime,
                 inflight, answered>>

ClearCachesKeepStale ==
  /\ generalCache' = deleteGeneral(generalCache, cacheKey)
  /\ lineIndex' = <<>>
  /\ cleared' = IF inflight = <<>> THEN "quiet" ELSE "racing"
  /\ obs' = [Idle EXCEPT !.op = "clearCaches", !.phase = "return", !.t0 = now]
  /\ UNCHANGED <<worker, app, now, lineCache, positionCache, lastFetchTime, inflight, answered>>

\* POST /api/sppo/cache/clear: SppoController.clearCache calls clearCaches
ClearCaches ==
  /\ generalCache' = deleteGeneral(deleteGeneral(generalCache, cacheKey), staleKey)
  /\ lineIndex' = <<>>
  /\ cleared' = IF inflight = <<>> THEN "quiet" ELSE "racing"
  /\ obs' = [Idle EXCEPT !.op = "clearCaches", !.phase = "return", !.t0 = now]
  /\ UNCHANGED <<worker, app, now, lineCache, positionCache, lastFetchTime, inflight, answered>>

\* ------------------------------------------------------------------- clock
\* the checkperiod timer of the three namespaces fires every checkperiod
\* seconds from construction
SweepDue(t) == (t - Epoch) % (checkperiod * MsPerSecond) = 0

Swept(cache, t) == IF SweepDue(t) THEN CheckData(cache, t) ELSE cache

\* an answer is remembered while another call can come less than
\* ttlLineResult seconds after it
Recent(answer, t) ==
  IF answer.some /\ t - answer.t < ttlLineResult * MsPerSecond THEN answer ELSE NoAnswer

\* the clock step with an index that goes when the general entry expires
TickExpiringIndex(maxTicks) ==
  /\ now < Epoch + maxTicks * MsPerMinute
  /\ \A i \in 1..Len(inflight) : now - inflight[i].t0 < timeout
  /\ now' = now + MsPerMinute
  /\ generalCache' = Swept(generalCache, now')
  /\ lineCache' = Swept(lineCache, now')
  /\ positionCache' = Swept(positionCache, now')
  /\ answered' = Recent(answered, now')
  /\ obs' = Idle
  /\ lineIndex' = IF getGeneral(generalCache, cacheKey, now').found
                     THEN lineIndex ELSE <<>>
  /\ UNCHANGED <<worker, app, lastFetchTime, inflight, cleared>>

\* one minute passes; the namespaces are swept when their timer is due.  An
\* upstream request settles within the axios timeout, so a call suspended
\* before the previous clock step has settled before this one
Tick(maxTicks) ==
  /\ now < Epoch + maxTicks * MsPerMinute
  /\ \A i \in 1..Len(inflight) : now - inflight[i].t0 < timeout
  /\ now' = now + MsPerMinute
  /\ generalCache' = Swept(generalCache, now')
  /\ lineCache' = Swept(lineCache, now')
  /\ positionCache' = Swept(positionCache, now')
  /\ answered' = Recent(answered, now')
  /\ obs' = Idle
  /\ UNCHANGED <<worker, app, lineIndex, lastFetchTime, inflight, cleared>>

\* the service with the queries by line left out
Next ==
  \/ GetAllBusData
  \/ \E i \in 1..Len(inflight) : \E response \in Responses :
       CompleteGetAllBusData(i, response)
  \/ ClearCaches
  \/ Tick(MaxTicks)

Spec == Init /\ [][Next]_vars

\* the service with the queries by line
NextLine ==
  \/ GetAllBusData /\ Len(inflight') <= LineInFlight
  \/ \E i \in 1..Len(inflight) : \E response \in Responses :
       CompleteGetAllBusData(i, response)
  \/ \E linha \in {Line415, Line415Padded} : GetBusByLine(linha) /\ Len(inflight') <= LineInFlight
  \/ \E i \in 1..Len(inflight) : \E response \in Responses :
       CompleteGetBusByLine(i, response)
  \/ ClearCaches
  \/ Tick(LineTicks)

SpecLine == Init /\ [][NextLine]_vars

\* the queries by one line, overlapping
NextSame ==
  \/ GetAllBusData /\ Len(inflight') <= SameInFlight
  \/ \E i \in 1..Len(inflight) : \E response \in Responses :
       CompleteGetAllBusData(i, response)
  \/ GetBusByLine(Line415) /\ Len(inflight') <= SameInFlight
  \/ \E i \in 1..Len(inflight) : \E response \in Responses :
       CompleteGetBusByLine(i, response)
  \/ ClearCaches
  \/ Tick(SameTicks)

SpecSame == Init /\ [][NextSame]_vars

\* the queries by line, with as many arguments as fill the line namespace
NextFull ==
  \/ \E linha \in {Line415, Line415Padded, Line2aLower, Line2aUpper} :
       GetBusByLine(linha) /\ Len(inflight') <= QueryInFlight
  \/ \E i \in 1..Len(inflight) : \E response \in Responses :
       CompleteGetBusByLine(i, response)
  \/ Tick(FullTicks)

SpecFull == Init /\ [][NextFull]_vars

\* the queries by line over lines that contain one another
NextLookup ==
  \/ \E linha \in { <<"4", "1">>, <<"4">>, <<"4", "1", "5", "0">>, <<"9">> } :
       GetBusByLine(linha) /\ Len(inflight') <= LookupInFlight
  \/ \E i \in 1..Len(inflight) :
       \E response \in {[status |-> "error", data |-> <<>>]}
                         \cup {[status |-> "ok", data |-> d] : d \in LookupFeeds} :
         CompleteGetBusByLine(i, response)
  \/ ClearCaches
  \/ Tick(LookupTicks)

SpecLookup == Init /\ [][NextLookup]_vars

\* the queries by one line, for longer than the stale snapshot lives
NextAge ==
  \/ GetBusByLine(Line415) /\ Len(inflight') <= AgeInFlight
  \/ \E i \in 1..Len(inflight) : \E response \in Responses :
       CompleteGetBusByLine(i, response)
  \/ ClearCaches
  \/ Tick(AgeTicks)

SpecAge == Init /\ [][NextAge]_vars

\* every method of the service, two calls at a time
NextAll ==
  \/ GetAllBusData /\ Len(inflight') <= AllInFlight
  \/ \E i \in 1..Len(inflight) : \E response \in Responses :
       CompleteGetAllBusData(i, response)
  \/ GetBusByLine(Line415) /\ Len(inflight') <= AllInFlight
  \/ \E i \in 1..Len(inflight) : \E response \in Responses :
       CompleteGetBusByLine(i, response)
  \/ GetBusByPosition(Centro[1], Centro[2], Centro[3]) /\ Len(inflight') <= AllInFlight
  \/ \E i \in 1..Len(inflight) : \E response \in Responses :
       CompleteGetBusByPosition(i, response)
  \/ GetStats /\ Len(inflight') <= AllInFlight
  \/ \E i \in 1..Len(inflight) : \E response \in Responses :
       CompleteGetStats(i, response)
  \/ ClearCaches
  \/ Tick(AllTicks)

SpecAll == Init /\ [][NextAll]_vars

\* the whole service: the three namespaces hold entries
NextQuery ==
  \/ GetAllBusData /\ Len(inflight') <= QueryInFlight
  \/ \E i \in 1..Len(inflight) : \E response \in Responses :
       CompleteGetAllBusData(i, response)
  \/ GetBusByLine(Line415) /\ Len(inflight') <= QueryInFlight
  \/ \E i \in 1..Len(inflight) : \E response \in Responses :
       CompleteGetBusByLine(i, response)
  \/ \E p \in {Centro} : GetBusByPosition(p[1], p[2], p[3]) /\ Len(inflight') <= QueryInFlight
  \/ \E i \in 1..Len(inflight) : \E response \in Responses :
       CompleteGetBusByPosition(i, response)
  \/ ClearCaches
  \/ Tick(QueryTicks)

SpecQuery == Init /\ [][NextQuery]_vars

\* the statistics and the plain listing, over feeds with malformed records
NextStats ==
  \/ GetAllBusData /\ Len(inflight') <= StatsInFlight
  \/ \E i \in 1..Len(inflight) : \E response \in StatsResponses :
       CompleteGetAllBusData(i, response)
  \/ GetStats /\ Len(inflight') <= StatsInFlight
  \/ \E i \in 1..Len(inflight) : \E response \in StatsResponses :
       CompleteGetStats(i, response)
  \/ Tick(StatsTicks)

SpecStats == Init /\ [][NextStats]_vars

\* the route of the queries by position
NextRoute ==
  \/ \E query \in RouteQueries : Posicao(query) /\ Len(inflight') <= RouteInFlight
  \/ \E i \in 1..Len(inflight) : \E response \in PositionResponses :
       CompleteGetBusByPosition(i, response)
  \/ \E linha \in RouteLinhas : Linha(linha) /\ Len(inflight') <= RouteInFlight
  \/ \E i \in 1..Len(inflight) : \E response \in PositionResponses :
       CompleteGetBusByLine(i, response)
  \/ Tick(RouteTicks)

SpecRoute == Init /\ [][NextRoute]_vars

\* calcularDistancia applied to two points
Measure(lat1, lon1, lat2, lon2) ==
  /\ obs' = [Idle EXCEPT !.op = "calcularDistancia",
               !.pos = <<lat1, lon1, lat2, lon2>>,
               !.v = <<calcularDistancia(lat1, lon1, lat2, lon2)>>]
  /\ UNCHANGED <<worker, app, now, generalCache, lineCache, positionCache, lineIndex,
                 lastFetchTime, inflight, cleared, answered>>

\* the points calcularDistancia is measured between: a first point on the
\* equator or in Rio, and a second one displaced from it in each coordinate
\* by nothing, 0.00449, 0.1, 0.10001 or 1 degree either way
NextDistance ==
  LET DistanceOrigins ==
        { <<0, 0>>, <<ParsedCoordinate[LatCentro], ParsedCoordinate[LonCentro]>> }
      DistanceOffsets ==
        { s * d : s \in {-1, 1},
                  d \in {0, 449, Scale \div 10, (Scale \div 10) + 1, Scale} }
  IN \E o \in DistanceOrigins : \E dLat \in DistanceOffsets : \E dLon \in DistanceOffsets :
       Measure(o[1], o[2], o[1] + dLat, o[2] + dLon)

SpecDistance == Init /\ [][NextDistance]_vars

\* the queries by position alone, over centres and radii that share or
\* outlive cache entries
NextPosition ==
  \/ \E p \in PositionQueries :
       GetBusByPosition(p[1], p[2], p[3]) /\ Len(inflight') <= PositionInFlight
  \/ \E i \in 1..Len(inflight) : \E response \in PositionResponses :
       CompleteGetBusByPosition(i, response)
  \/ Tick(PositionTicks)

SpecPosition == Init /\ [][NextPosition]_vars

\* -------------------------------------------------------------- properties
\* an entry of key k is in the namespace and its expiry instant has not
\* passed
Live(cache, k, t) == k \in DOMAIN cache /\ cache[k].t >= t

\* index holds exactly the buses of the sequence, grouped by index key in
\* their order, one bucket per key
IndexIsOf(index, buses) ==
  /\ \A i, j \in 1..Len(index) : index[i].linha = index[j].linha => i = j
  /\ \A i \in 1..Len(index) :
       /\ index[i].buses # <<>>
       /\ index[i].buses =
            SelectSeq(buses, LAMBDA bus : IndexKeyOf(bus) = index[i].linha)
  /\ \A k \in 1..Len(buses) : IndexHas(index, IndexKeyOf(buses[k]))

\* the raw record is among the kept ones
Kept(raw, buses) == \E k \in 1..Len(buses) : buses[k].ordem = raw.ordem

\* C1: when the upstream request of a getAllBusData call fails or answers
\* with something that is no array, the call returns the stale snapshot if
\* the stale key is live and throws only when it is not; nothing of the
\* failed fetch is stored
FailureReturnsStaleOrThrows ==
  [][(obs'.resumed /\ obs'.status # "ok") =>
       /\ IF Live(generalCache, staleKey, now)
            THEN /\ obs'.all = "fallback"
                 /\ obs'.allv = generalCache[staleKey].v
                 /\ obs'.op = "getAllBusData" =>
                      obs'.phase = "return" /\ obs'.v = generalCache[staleKey].v
            ELSE obs'.all = "throw" /\ obs'.phase = "throw"
       /\ lineIndex' = lineIndex
       /\ lastFetchTime' = lastFetchTime
       /\ \A k \in DOMAIN generalCache' :
            k \in DOMAIN generalCache /\ generalCache'[k] = generalCache[k]]_vars

\* C1: a failed request answered with a stale snapshot that holds records
FailureAnsweredFromStale ==
  /\ obs.op = "getAllBusData"
  /\ obs.resumed
  /\ obs.status = "invalid"
  /\ obs.via = "fallback"
  /\ obs.v # <<>>

\* C3: after a successful fetch the general key holds the kept records for
\* 300 s, the stale key the same records for 1800 s, the line index is
\* built from exactly those records and lastFetchTime is the instant read
\* before the request
SuccessfulFetchStores ==
  obs.all = "fetch" =>
    /\ cacheKey \in DOMAIN generalCache
    /\ generalCache[cacheKey] = [v |-> obs.allv, t |-> now + ttlAll * MsPerSecond]
    /\ staleKey \in DOMAIN generalCache
    /\ generalCache[staleKey] = [v |-> obs.allv, t |-> now + ttlStale * MsPerSecond]
    /\ IndexIsOf(lineIndex, obs.allv)
    /\ lastFetchTime = obs.t0

\* C3: a fetch that took a minute stored records of two lines
FetchStoredTwoLines ==
  /\ obs.all = "fetch"
  /\ Len(lineIndex) = 2
  /\ obs.t0 < now

\* C4: a raw record of a fetched array is kept iff its speed is above 0 or
\* it was observed at most 5 minutes before the instant the response is
\* processed
KeptIffMovingOrRecent ==
  obs.all = "fetch" =>
    /\ \A i \in 1..Len(obs.data) :
         Kept(obs.data[i], obs.allv) <=>
           \/ obs.data[i].velocidade > 0
           \/ now - obs.data[i].datahora <= recentMinutes * MsPerMinute
    /\ \A k \in 1..Len(obs.allv) :
         \E i \in 1..Len(obs.data) : obs.allv[k] = normalizeBusData(obs.data[i])

\* C4: one fetch dropped a stopped old record, kept a stopped recent one
\* and kept a moving one observed an hour before
FetchKeptAndDropped ==
  /\ obs.all = "fetch"
  /\ \E i \in 1..Len(obs.data) : ~Kept(obs.data[i], obs.allv)
  /\ \E k \in 1..Len(obs.allv) : obs.allv[k].velocidade = 0
  /\ \E k \in 1..Len(obs.allv) :
       /\ obs.allv[k].velocidade > 0
       /\ now - obs.allv[k].dataHora >= 60 * MsPerMinute

\* a getAllBusData call of its own starts in the step
StartsGetAllBusData == obs'.op = "getAllBusData" /\ ~obs'.resumed

\* a call that started as the first one since clearCaches fetched: the
\* index is built from its result
RepopulatedAfterClear ==
  (obs'.resumed /\ obs'.afterClear # "no" /\ obs'.all = "fetch") =>
    IndexIsOf(lineIndex', obs'.allv)

\* C5, as stated: the first getAllBusData call after clearCaches issues an
\* upstream request, and when it succeeds the index is built from its result
FirstCallAfterClearFetches ==
  [][/\ (cleared # "no" /\ StartsGetAllBusData) =>
          obs'.upstream /\ obs'.phase = "await"
     /\ RepopulatedAfterClear]_vars

\* C5, amended: the same when no upstream request was in flight at the
\* moment clearCaches ran
FirstCallAfterQuietClearFetches ==
  [][/\ (cleared = "quiet" /\ StartsGetAllBusData) =>
          obs'.upstream /\ obs'.phase = "await"
     /\ RepopulatedAfterClear]_vars

\* C5: less than five minutes after a fetch the caches were cleared and the
\* next call went upstream
FetchedInsideThrottleWindow ==
  /\ obs.op = "getAllBusData"
  /\ ~obs.resumed
  /\ obs.afterClear = "quiet"
  /\ obs.upstream
  /\ lastFetchTime # 0
  /\ now - lastFetchTime < fetchInterval

\* the gets of the step that returned an entry, each with the least
\* lifetime left that the entry may have had
ReturnedEntriesLiveFor(least) ==
  /\ obs'.via = "line_cache" =>
       /\ LineCacheKey(obs'.arg) \in DOMAIN lineCache
       /\ lineCache[LineCacheKey(obs'.arg)].t - now >= least
       /\ obs'.v = lineCache[LineCacheKey(obs'.arg)].v
  /\ obs'.via = "position_cache" =>
       /\ PositionCacheKey(obs'.pos[1], obs'.pos[2], obs'.pos[3]) \in DOMAIN positionCache
       /\ positionCache[PositionCacheKey(obs'.pos[1], obs'.pos[2], obs'.pos[3])].t - now
            >= least
  /\ obs'.all = "general" =>
       /\ cacheKey \in DOMAIN generalCache
       /\ generalCache[cacheKey].t - now >= least
       /\ obs'.allv = generalCache[cacheKey].v
  /\ obs'.all \in {"throttle", "fallback"} =>
       /\ staleKey \in DOMAIN generalCache
       /\ generalCache[staleKey].t - now >= least
       /\ obs'.allv = generalCache[staleKey].v

\* a query whose key is unknown or expired is not answered from its namespace
AbsentWhenUnknownOrExpired ==
  /\ (obs'.op = "getBusByLine" /\ ~obs'.resumed
        /\ ~Live(lineCache, LineCacheKey(obs'.arg), now)) => obs'.via # "line_cache"
  /\ (obs'.op = "getBusByPosition" /\ ~obs'.resumed
        /\ ~Live(positionCache,
                 PositionCacheKey(obs'.pos[1], obs'.pos[2], obs'.pos[3]), now))
       => obs'.via # "position_cache"
  /\ (obs'.all # "none" /\ ~obs'.resumed /\ ~Live(generalCache, cacheKey, now))
       => obs'.all # "general"

\* C2, as stated: no get of the three namespaces returns an entry whose
\* insertion time plus ttl is at or before the current time, swept or not,
\* and a get of an unknown or expired key returns nothing
NeverReturnsEntryAtOrPastExpiry ==
  [][ReturnedEntriesLiveFor(1) /\ AbsentWhenUnknownOrExpired]_vars

\* C2, amended: no get returns an entry whose insertion time plus ttl is
\* before the current time (at that very instant the entry is still
\* returned), swept or not, and a get of an unknown or expired key returns
\* nothing
NeverReturnsEntryPastExpiry ==
  [][ReturnedEntriesLiveFor(0) /\ AbsentWhenUnknownOrExpired]_vars

\* C2: a query by line was answered from its namespace while an expired
\* entry that no sweep has removed sits in the position namespace and the
\* general namespace holds its keys
AnsweredBesideExpiredEntry ==
  /\ obs.via = "line_cache"
  /\ \E k \in DOMAIN positionCache : positionCache[k].t < now
  /\ cacheKey \in DOMAIN generalCache

\* C6: after clearCaches, called by POST /api/sppo/cache/clear, the three
\* namespaces and the line index are empty
ClearEmptiesEverything ==
  obs.op = "clearCaches" =>
    /\ DOMAIN generalCache = {}
    /\ DOMAIN lineCache = {}
    /\ DOMAIN positionCache = {}
    /\ lineIndex = <<>>

\* C7: two getBusByLine calls one right after the other, with arguments
\* that normalize to the same line, return identical results
SameLineSameResult ==
  [][(/\ obs.op = "getBusByLine"
      /\ obs.phase = "return"
      /\ obs'.op = "getBusByLine"
      /\ obs'.phase = "return"
      /\ ~obs'.resumed
      /\ NormalizeLine(obs.arg) = NormalizeLine(obs'.arg))
       => obs'.v = obs.v]_vars

\* C8, as stated: a getBusByLine call made less than 120 s after a call with
\* the same argument returns the same result and issues no upstream request
RepeatedWithin120sSame ==
  [][(/\ obs'.op = "getBusByLine"
      /\ ~obs'.resumed
      /\ answered.some
      /\ answered.arg = obs'.arg
      /\ now - answered.t < ttlLineResult * MsPerSecond)
       => obs'.phase = "return" /\ obs'.v = answered.v /\ ~obs'.upstream]_vars

\* C8, amended: a call that computes its result stores it for 120 s from
\* that instant; until it expires the entry is replaced only by the store
\* of a call with the same argument that was awaiting the feed; and a call
\* made while the entry of its argument is live returns the stored result
\* and issues no upstream request
StoredResultServedFor120s ==
  [][/\ (obs'.op = "getBusByLine" /\ obs'.phase = "return" /\ obs'.via # "line_cache")
          => /\ LineCacheKey(obs'.arg) \in DOMAIN lineCache'
             /\ lineCache'[LineCacheKey(obs'.arg)] =
                  [v |-> obs'.v, t |-> now + ttlLineResult * MsPerSecond]
     /\ \A k \in DOMAIN lineCache :
          lineCache[k].t >= now' =>
            /\ k \in DOMAIN lineCache'
            /\ \/ lineCache'[k] = lineCache[k]
               \/ /\ obs'.op = "getBusByLine"
                  /\ obs'.resumed
                  /\ k = LineCacheKey(obs'.arg)
     /\ (obs'.op = "getBusByLine" /\ ~obs'.resumed
           /\ Live(lineCache, LineCacheKey(obs'.arg), now))
          => /\ obs'.phase = "return"
             /\ obs'.v = lineCache[LineCacheKey(obs'.arg)].v
             /\ ~obs'.upstream]_vars

\* C8: a call was answered from the entry a call two minutes before stored,
\* after the index had been cleared
AnsweredFromStoredEntry ==
  /\ obs.op = "getBusByLine"
  /\ obs.via = "line_cache"
  /\ obs.v # <<>>
  /\ lineIndex = <<>>
  /\ lineCache[LineCacheKey(obs.arg)].t = now

\* C9: no namespace holds more than maxKeys keys, and a query whose
\* getAllBusData call did not throw returns its result
FullNamespaceDoesNotFailQuery ==
  /\ Cardinality(DOMAIN generalCache) <= maxKeys
  /\ Cardinality(DOMAIN lineCache) <= maxKeys
  /\ Cardinality(DOMAIN positionCache) <= maxKeys
  /\ (obs.op \in {"getBusByLine", "getBusByPosition"} /\ obs.all # "throw")
       => obs.phase # "throw"

\* C10: getBusByLine returns the empty sequence, and no error, when no key
\* of the index matches after the retry
NoMatchReturnsEmpty ==
  (/\ obs.op = "getBusByLine"
   /\ obs.via = "retry"
   /\ obs.all # "throw"
   /\ LookupLine(lineIndex, NormalizeLine(obs.arg)) = <<>>)
    => obs.phase = "return" /\ obs.v = <<>>

\* C11: every record of a getBusByPosition result lies within the radius of
\* the call, measured from the centre of the call, also when the call is
\* answered from the position namespace
ResultWithinRadiusOfCall ==
  (obs.op = "getBusByPosition" /\ obs.phase = "return")
    => \A k \in 1..Len(obs.v) :
         WithinRadius(calcularDistancia(obs.pos[1], obs.pos[2],
                                        obs.v[k].latitude, obs.v[k].longitude),
                      obs.pos[3])

\* the step is a getBusByPosition call that returns, right after another
\* one that returned at the same instant for the same centre
BackToBackSameCentre ==
  /\ obs.op = "getBusByPosition" /\ obs.phase = "return"
  /\ obs'.op = "getBusByPosition" /\ obs'.phase = "return"
  /\ now' = now
  /\ obs'.pos[1] = obs.pos[1] /\ obs'.pos[2] = obs.pos[2]

\* C12: of two getBusByPosition calls with the same centre, the one with the
\* smaller radius returns no more records than the other
SmallerRadiusNoMoreRecords ==
  [][BackToBackSameCentre =>
       /\ obs'.pos[3] < obs.pos[3] => Len(obs'.v) <= Len(obs.v)
       /\ obs.pos[3] < obs'.pos[3] => Len(obs.v) <= Len(obs'.v)]_vars

\* C12, amended: a getBusByPosition call that computes its result returns no
\* more records than the filter keeps of the same snapshot at the same
\* instant for a larger radius, and no fewer than it keeps for a smaller one
SmallerRadiusNoMoreOfSnapshot ==
  (obs.op = "getBusByPosition" /\ obs.phase = "return" /\ obs.via = "filter")
    => \A r \in PositionRadii :
         /\ r > obs.pos[3] =>
              Len(obs.v) <= Len(FilterByPosition(obs.allv, obs.pos[1], obs.pos[2], r, now))
         /\ r < obs.pos[3] =>
              Len(FilterByPosition(obs.allv, obs.pos[1], obs.pos[2], r, now)) <= Len(obs.v)

\* a call computed its result for the larger radius from a snapshot holding
\* a vehicle between the two radii
FilteredBetweenRadii ==
  /\ obs.op = "getBusByPosition" /\ obs.phase = "return" /\ obs.via = "filter"
  /\ obs.pos[3] = 500
  /\ Len(obs.v) = 1
  /\ FilterByPosition(obs.allv, obs.pos[1], obs.pos[2], 400, now) = <<>>

\* C13: calcularDistancia is infinite exactly when the latitudes or the
\* longitudes differ by more than 0.1 degree; otherwise it is finite and not
\* negative, and 0 for a point and itself
InfiniteExactlyOutsideBox ==
  obs.op = "calcularDistancia" =>
    IF \/ Abs(obs.pos[3] - obs.pos[1]) > Scale \div 10
       \/ Abs(obs.pos[4] - obs.pos[2]) > Scale \div 10
      THEN ~obs.v[1].finite
      ELSE /\ obs.v[1].finite
           /\ obs.v[1].m >= 0
           /\ (obs.pos[3] = obs.pos[1] /\ obs.pos[4] = obs.pos[2]) => obs.v[1].m = 0

\* a pair more than 0.1 degree apart in longitude only has been measured
MeasuredOutsideBoxByLongitude ==
  /\ obs.op = "calcularDistancia"
  /\ obs.pos[3] = obs.pos[1]
  /\ Abs(obs.pos[4] - obs.pos[2]) = (Scale \div 10) + 1
  /\ ~obs.v[1].finite

\* (0, 0) and (1, 1) have been measured
MeasuredUnitDiagonal ==
  obs.op = "calcularDistancia" /\ obs.pos = <<0, 0, Scale, Scale>>

\* C14: calcularDistancia(0, 0, 1, 1) is finite and about 157 km
UnitDiagonalIsHaversine ==
  MeasuredUnitDiagonal =>
    /\ obs.v[1].finite
    /\ obs.v[1].m >= 156000
    /\ obs.v[1].m <= 158000

\* C14, amended: calcularDistancia(0, 0, 1, 1) is infinite, the points being
\* more than 0.1 degree apart
UnitDiagonalIsInfinite ==
  MeasuredUnitDiagonal => ~obs.v[1].finite

\* the measurement of (0, 0) and (1, 1) has returned
UnitDiagonalMeasured ==
  MeasuredUnitDiagonal /\ Len(obs.v) = 1

\* what the claims expect of a raw record: the coordinate or speed parsed,
\* 0 when it is left out or no number
ExpectedCoordinate(raw, field) ==
  IF Has(raw, field) THEN ParseCoordinate(raw[field]) ELSE 0

ExpectedSpeed(raw) == IF Has(raw, "velocidade") THEN raw.velocidade ELSE 0

\* a successful fetch of a feed in which a field of some record does not
\* parse
FetchedMalformed ==
  /\ obs.resumed
  /\ obs.status = "ok"
  /\ \E i \in 1..Len(obs.data) :
       \/ ~Has(obs.data[i], "datahora")
       \/ ~Has(obs.data[i], "velocidade")
       \/ ExpectedCoordinate(obs.data[i], "latitude") = 0
       \/ ExpectedCoordinate(obs.data[i], "longitude") = 0

\* C15: a fetch of an array with records whose fields do not parse succeeds;
\* each record is kept iff it is moving or recent, and a kept record carries
\* its parsed coordinates and speed, 0 for those that do not parse
FieldFailuresRecoveredWithDefaults ==
  FetchedMalformed =>
    /\ obs.all = "fetch"
    /\ \A i \in 1..Len(obs.data) :
         /\ Kept(obs.data[i], obs.allv) <=>
              \/ ExpectedSpeed(obs.data[i]) > 0
              \/ /\ Has(obs.data[i], "datahora")
                 /\ now - obs.data[i].datahora <= recentMinutes * MsPerMinute
         /\ \A k \in 1..Len(obs.allv) :
              obs.allv[k].ordem = obs.data[i].ordem =>
                /\ obs.allv[k] # obs.data[i]
                /\ obs.allv[k].latitude = ExpectedCoordinate(obs.data[i], "latitude")
                /\ obs.allv[k].longitude = ExpectedCoordinate(obs.data[i], "longitude")
                /\ obs.allv[k].velocidade = ExpectedSpeed(obs.data[i])

\* the VehicleReport invariant of one stored record: numbers (which a record
\* stored as it came does not carry) within their ranges
IsVehicleReport(bus) ==
  /\ Has(bus, "dataHora")
  /\ bus.latitude >= -90 * Scale /\ bus.latitude <= 90 * Scale
  /\ bus.longitude >= -180 * Scale /\ bus.longitude <= 180 * Scale
  /\ bus.velocidade >= 0

\* C16: every record held by the general key, the stale key and the line
\* index has a latitude in [-90, 90], a longitude in [-180, 180] and a speed
\* of at least 0
StoredRecordsAreVehicleReports ==
  /\ \A key \in DOMAIN generalCache :
       \A k \in 1..Len(generalCache[key].v) : IsVehicleReport(generalCache[key].v[k])
  /\ \A i \in 1..Len(lineIndex) :
       \A k \in 1..Len(lineIndex[i].buses) : IsVehicleReport(lineIndex[i].buses[k])

\* getStats has come to its end over the records getAllBusData gave it
StatsOver(data) ==
  /\ obs.op = "getStats"
  /\ obs.phase # "await"
  /\ obs.all # "throw"
  /\ obs.allv = data

\* C18: getStats over no active record returns total 0, avgSpeed 0, no
\* per-line count and no lastUpdate, and does not throw
EmptyStats ==
  StatsOver(<<>>) =>
    /\ obs.phase = "return"
    /\ obs.v = << [total |-> 0, byLine |-> <<>>, avgSpeed |-> 0, lastUpdate |-> 0] >>

\* getStats returned over a fetch that kept none of the records of the feed
StatsOfFeedWithNoneActive ==
  /\ StatsOver(<<>>)
  /\ obs.all = "fetch"
  /\ obs.data # <<>>
  /\ obs.phase = "return"

RECURSIVE SumOver(_, _)
SumOver(f, S) ==
  IF S = {} THEN 0
  ELSE LET x == CHOOSE y \in S : TRUE IN f[x] + SumOver(f, S \ {x})

\* C19: getStats over a non-empty active set returns; total is the number
\* of records, the per-line counts sum to total and lastUpdate is the
\* latest observation instant of the records
StatsOfActiveSet ==
  (obs.op = "getStats" /\ obs.phase # "await" /\ obs.all # "throw" /\ obs.allv # <<>>)
    => /\ obs.phase = "return"
       /\ obs.v[1].total = Len(obs.allv)
       /\ SumOver(obs.v[1].byLine, DOMAIN obs.v[1].byLine) = obs.v[1].total
       /\ \A k \in 1..Len(obs.allv) : obs.allv[k].dataHora <= obs.v[1].lastUpdate
       /\ \E k \in 1..Len(obs.allv) : obs.allv[k].dataHora = obs.v[1].lastUpdate

\* a getAllBusData call starts with no live general entry, less than 5
\* minutes after the instant the last successful fetch recorded
StartsThrottled ==
  /\ StartsGetAllBusData
  /\ ~Live(generalCache, cacheKey, now)
  /\ lastFetchTime # 0
  /\ now - lastFetchTime < fetchInterval

\* C17: a getAllBusData call made without a general entry less than 5
\* minutes after the last recorded fetch returns the stale snapshot and
\* issues no upstream request when the stale key is live, and issues the
\* upstream request when it is not
ThrottledPrefersStale ==
  [][StartsThrottled =>
       IF Live(generalCache, staleKey, now)
         THEN /\ obs'.phase = "return"
              /\ obs'.v = generalCache[staleKey].v
              /\ ~obs'.upstream
              /\ inflight' = inflight
         ELSE /\ obs'.phase = "await"
              /\ obs'.upstream
              /\ Len(inflight') = Len(inflight) + 1]_vars

\* a call inside the interval, with neither entry, awaits the feed
ThrottledWithoutStaleAwaits ==
  /\ obs.op = "getAllBusData"
  /\ obs.phase = "await"
  /\ lastFetchTime # 0
  /\ obs.t0 - lastFetchTime < fetchInterval
  /\ obs.t0 > lastFetchTime
  /\ DOMAIN generalCache = {}

\* the parameter is a number within the bounds, in units of 1/Scale
ParameterWithin(s, lo, hi) ==
  /\ ParseFloat(s).ok
  /\ ParseFloat(s).n >= lo
  /\ ParseFloat(s).n <= hi

\* C20: a request with lat and lon inside their bounds and no raio is served
\* by getBusByPosition with a radius of 1 km; a request with lat outside
\* [-90, 90], lon outside [-180, 180] or raio outside [0.1, 50] is answered
\* 400
PosicaoDefaultsAndBounds ==
  [][\A query \in {q \in RouteQueries : Has(q, "lat") /\ Has(q, "lon")} :
       Posicao(query) =>
         /\ (/\ ParameterWithin(query.lat, -90 * Scale, 90 * Scale)
             /\ ParameterWithin(query.lon, -180 * Scale, 180 * Scale)
             /\ ~Has(query, "raio"))
              => obs'.op = "getBusByPosition" /\ obs'.pos[3] = 1000
         /\ (\/ ~ParameterWithin(query.lat, -90 * Scale, 90 * Scale)
             \/ ~ParameterWithin(query.lon, -180 * Scale, 180 * Scale)
             \/ /\ Has(query, "raio")
                /\ ~ParameterWithin(query.raio, Scale \div 10, 50 * Scale))
              => obs'.op = "posicao" /\ obs'.status = "400"]_vars

\* C21: the line and position endpoints answer 404 exactly when the service
\* returned the empty sequence, 200 with meta.total the number of records
\* when it returned records, and neither 404 nor 200 when it threw
NotFoundIffEmpty ==
  (obs.op \in {"getBusByLine", "getBusByPosition"} /\ obs.phase # "await")
    => /\ obs.http.status = 404 <=> (obs.phase = "return" /\ obs.v = <<>>)
       /\ (obs.phase = "return" /\ obs.v # <<>>)
            => obs.http = [status |-> 200, total |-> Len(obs.v)]
       /\ obs.phase = "throw" => obs.http.status \notin {200, 404}

\* a query by position failed with the feed and was answered 500
ServiceErrorAnswered500 ==
  /\ obs.op = "getBusByPosition"
  /\ obs.phase = "throw"
  /\ obs.status = "error"
  /\ obs.http.status = 500

\* the buckets of the index whose key contains, or is contained in, the key
MatchingBuckets(index, key) ==
  {i \in 1..Len(index) :
     Includes(index[i].linha, key) \/ Includes(key, index[i].linha)}

\* v is what steps (a) and (b) give on the index: the bucket of the key when
\* there is one, else the records of the matching buckets, each once
IsLookupOf(index, key, v) ==
  IF \E i \in 1..Len(index) : index[i].linha = key
    THEN \E i \in 1..Len(index) : index[i].linha = key /\ v = index[i].buses
    ELSE /\ \A i, j \in 1..Len(v) : v[i] = v[j] => i = j
         /\ {v[i] : i \in 1..Len(v)} =
              UNION {{index[b].buses[k] : k \in 1..Len(index[b].buses)} :
                       b \in MatchingBuckets(index, key)}

\* C22: on a line-cache miss getBusByLine answers from the index as it is
\* when the exact or the partial lookup finds something, without calling
\* getAllBusData; only when both find nothing it calls getAllBusData, once,
\* and answers with the exact-else-partial lookup on the index after it
LookupOrder ==
  [][(obs'.op = "getBusByLine" /\ obs'.via # "line_cache") =>
       /\ ~obs'.resumed =>
            /\ obs'.all = "none" <=>
                 MatchingBuckets(lineIndex, NormalizeLine(obs'.arg)) # {}
            /\ (obs'.all = "none" /\ obs'.phase = "return") =>
                 IsLookupOf(lineIndex, NormalizeLine(obs'.arg), obs'.v)
            /\ Len(inflight') = Len(inflight) + (IF obs'.upstream THEN 1 ELSE 0)
            /\ obs'.upstream => obs'.all = "upstream"
       /\ obs'.resumed => Len(inflight') = Len(inflight) - 1
       /\ (obs'.all # "none" /\ obs'.phase = "return") =>
            IsLookupOf(lineIndex', NormalizeLine(obs'.arg), obs'.v)]_vars

\* a query for "41" was answered from the index that also holds "415"
ExactBucketBesidePartial ==
  /\ obs.op = "getBusByLine"
  /\ obs.via = "index"
  /\ obs.arg = <<"4", "1">>
  /\ Len(obs.v) = 1
  /\ Len(lineIndex) = 3

\* C23: every record that getAllBusData, getBusByLine or getBusByPosition
\* returns is active at the instant of the return: it moves, or it was
\* observed within the last 5 minutes
ReturnedRecordsActiveNow ==
  (/\ obs.op \in {"getAllBusData", "getBusByLine", "getBusByPosition"}
   /\ obs.phase = "return")
    => \A i \in 1..Len(obs.v) :
         \/ obs.v[i].velocidade > 0
         \/ now - obs.v[i].dataHora <= recentMinutes * MsPerMinute

\* the great-circle distance, computed as lines 311-320 compute it, with no
\* bounding box before it
GreatCircle(lat1, lon1, lat2, lon2) ==
  Arc(Abs(lat2 - lat1), Abs(lon2 - lon1), Sqrt(Cos(lat1) * Cos(lat2)))

\* C24: for every radius the route accepts, every active record of the
\* source set whose great-circle distance from the centre is within the
\* radius is in the result that getBusByPosition computes
BoxHidesNoRecordWithinRadius ==
  (/\ obs.op = "getBusByPosition"
   /\ obs.phase = "return"
   /\ obs.via = "filter")
    => \A k \in 1..Len(obs.allv) :
         (/\ IsActive(obs.allv[k], now)
          /\ GreatCircle(obs.pos[1], obs.pos[2],
                         obs.allv[k].latitude, obs.allv[k].longitude) <= obs.pos[3])
           => \E i \in 1..Len(obs.v) : obs.v[i] = obs.allv[k]

\* the general entry, the stale snapshot and the line index all hold the
\* active vehicles of the array data, filtered at instant t
AllFromResponse(general, index, data, t) ==
  /\ Live(general, cacheKey, t)
  /\ Live(general, staleKey, t)
  /\ general[cacheKey].v = ActiveBuses(data, t)
  /\ general[staleKey].v = ActiveBuses(data, t)
  /\ IndexIsOf(index, ActiveBuses(data, t))

\* two getAllBusData calls issued their requests and the first of them to
\* settle has just got an array
TwoRequestsOneSettled ==
  /\ obs.op = "getAllBusData"
  /\ obs.resumed
  /\ obs.status = "ok"
  /\ Len(inflight) = 1
  /\ inflight[1].op = "getAllBusData"

\* C25: two getAllBusData calls may have their upstream requests in flight
\* together, and when the second of them settles right after the first,
\* the general entry, the stale snapshot and the line index all come from
\* one response: the second one if it is an array, else the first one
OverlappingFetchesLeaveOneResponse ==
  [][(/\ obs.op = "getAllBusData" /\ obs.resumed
      /\ Len(inflight) = 1 /\ inflight[1].op = "getAllBusData"
      /\ obs'.op = "getAllBusData" /\ obs'.resumed)
       => /\ obs'.status = "ok"
               => AllFromResponse(generalCache', lineIndex', obs'.data, now)
          /\ (obs'.status # "ok" /\ obs.status = "ok")
               => AllFromResponse(generalCache', lineIndex', obs.data, now)]_vars

\* the index is the whole grouping of the active vehicles of one array of
\* the feed, filtered at one instant up to now
IndexOfOneFetch(index) ==
  \E data \in Feeds : \E k \in 0..((now - Epoch) \div MsPerMinute) :
    IndexIsOf(index, ActiveBuses(data, Epoch + k * MsPerMinute))

\* C26: whatever calls overlap, the line index that a query can read is
\* never partly rebuilt: it is empty (as constructed or as clearCaches left
\* it) or the complete index of one successful fetch
IndexWholeOrEmpty ==
  lineIndex = <<>> \/ IndexOfOneFetch(lineIndex)

\* a query by line was answered from the index while the request of another
\* call was in flight
IndexReadDuringFetch ==
  /\ obs.op = "getBusByLine"
  /\ obs.via = "index"
  /\ obs.v # <<>>
  /\ inflight # <<>>

\* the step is the end of a successful upstream fetch, in whatever method
FetchSucceeds == obs'.resumed /\ obs'.all = "fetch"

IndexSlots(index) ==
  {p \in (1..Len(index)) \X (1..MaxFeedLen) : p[2] <= Len(index[p[1]].buses)}

\* the key a record belongs under
ExpectedKey(bus) ==
  IF ToLowerCase(Trim(bus.linha)) = <<>> THEN unknownLine
  ELSE ToLowerCase(Trim(bus.linha))

\* C28: after updateLineIndex the buckets partition the records it was
\* given: every record is in exactly one place, under its trimmed
\* lower-cased line or under 'unknown', in input order within its bucket;
\* no bucket is empty, no key is there twice and no bucket holds anything
\* else (nothing of the index before)
IndexPartitionsRecords ==
  [][FetchSucceeds =>
       /\ \A k \in 1..Len(obs'.allv) :
            Cardinality({p \in IndexSlots(lineIndex') :
                           lineIndex'[p[1]].buses[p[2]] = obs'.allv[k]}) = 1
       /\ \A p \in IndexSlots(lineIndex') :
            /\ \E k \in 1..Len(obs'.allv) :
                 lineIndex'[p[1]].buses[p[2]] = obs'.allv[k]
            /\ lineIndex'[p[1]].linha = ExpectedKey(lineIndex'[p[1]].buses[p[2]])
       /\ \A p, q \in IndexSlots(lineIndex') :
            (p[1] = q[1] /\ p[2] < q[2]) =>
              \E k, l \in 1..Len(obs'.allv) :
                /\ k < l
                /\ obs'.allv[k] = lineIndex'[p[1]].buses[p[2]]
                /\ obs'.allv[l] = lineIndex'[q[1]].buses[q[2]]
       /\ \A i, j \in 1..Len(lineIndex') :
            /\ lineIndex'[i].buses # <<>>
            /\ lineIndex'[i].linha = lineIndex'[j].linha => i = j]_vars

\* a fetch has left an index of two buckets, one of them with two records,
\* and the key of the other is "2a" for the line "2A " of the feed
FetchIndexedTwoBuckets ==
  /\ obs.resumed
  /\ obs.all = "fetch"
  /\ Len(lineIndex) = 2
  /\ \E i \in 1..2 : Len(lineIndex[i].buses) = 2
  /\ \E i \in 1..2 : lineIndex[i].linha = Line2aLower

\* positionSchema rejects the query: lat or lon missing, no number or out
\* of range, or a raio that is no number in [0.1, 50]
SchemaRejects(query) ==
  \/ ~Has(query, "lat")
  \/ ~Has(query, "lon")
  \/ ~ParameterWithin(query.lat, -90 * Scale, 90 * Scale)
  \/ ~ParameterWithin(query.lon, -180 * Scale, 180 * Scale)
  \/ Has(query, "raio") /\ ~ParameterWithin(query.raio, Scale \div 10, 50 * Scale)

\* the queries that positionSchema rejects, evaluated once
RejectedQueries == {query \in RouteQueries : SchemaRejects(query)}

\* the step answers 400 without entering the service
Answered400NothingChanged ==
  /\ obs'.http.status = 400
  /\ obs'.op \in {"posicao", "linha"}
  /\ ~obs'.upstream
  /\ UNCHANGED <<generalCache, lineCache, positionCache, lineIndex,
                 lastFetchTime, inflight>>

IndexGroupsLiveGeneralEntry ==
  Live(generalCache, cacheKey, now)
    => IndexIsOf(lineIndex, generalCache[cacheKey].v)

\* a fetch that clearCaches overtook has stored its records: the general
\* entry is live and the index is filled again
FetchStoredAfterRacingClear ==
  /\ cleared = "racing"
  /\ obs.resumed
  /\ obs.all = "fetch"
  /\ Live(generalCache, cacheKey, now)
  /\ Len(lineIndex) = 2

\* the live entries of the general namespace are the same after the step
SameLiveGeneral ==
  \A k \in {cacheKey, staleKey} :
    /\ Live(generalCache', k, now) <=> Live(generalCache, k, now)
    /\ Live(generalCache, k, now) => generalCache'[k] = generalCache[k]

\* C31: neither part of a getAllBusData call whose upstream request fails or
\* answers with something that is no array (issuing the request, then
\* handling the failure) changes the general entry, the stale snapshot, the
\* line index or lastFetchTime
FailedFetchChangesNothing ==
  [][(/\ obs'.op = "getAllBusData"
      /\ \/ obs'.phase = "await"
         \/ obs'.resumed /\ obs'.status # "ok")
       => /\ SameLiveGeneral
          /\ lineIndex' = lineIndex
          /\ lastFetchTime' = lastFetchTime]_vars

\* a getAllBusData call got a payload that is no array while an entry, a
\* snapshot and an index of an earlier fetch were there
InvalidPayloadOverStoredFetch ==
  /\ obs.op = "getAllBusData"
  /\ obs.resumed
  /\ obs.status = "invalid"
  /\ Live(generalCache, staleKey, now)
  /\ lineIndex # <<>>
  /\ lastFetchTime # 0

\* C32: lastFetchTime never decreases, and a request that succeeds after a
\* request started later has succeeded does not replace the general entry
\* of the later one
FetchTimeGrowsNewestWins ==
  [][/\ lastFetchTime' >= lastFetchTime
     /\ (/\ FetchSucceeds
         /\ obs'.t0 < lastFetchTime
         /\ Live(generalCache, cacheKey, now))
          => generalCache'[cacheKey].v = generalCache[cacheKey].v]_vars

\* C33: while the general entry is absent and the stale snapshot live, at
\* least fetchInterval has passed since lastFetchTime; so no call returns
\* from the throttling branch, and a call that returns the snapshot does so
\* after its own upstream request failed
StaleAloneOnlyAfterInterval ==
  /\ (~Live(generalCache, cacheKey, now) /\ Live(generalCache, staleKey, now))
       => lastFetchTime # 0 /\ now - lastFetchTime >= fetchInterval
  /\ obs.all # "throttle"
  /\ obs.all = "fallback" => obs.resumed /\ obs.status # "ok"

\* the general entry has expired, the snapshot has not, and a call whose
\* request failed has returned the snapshot
SnapshotReturnedAfterExpiry ==
  /\ ~Live(generalCache, cacheKey, now)
  /\ Live(generalCache, staleKey, now)
  /\ obs.op = "getAllBusData"
  /\ obs.all = "fallback"
  /\ obs.v # <<>>

\* C34: a query by line that misses the line cache and finds a matching key
\* in the index answers from the index, with no getAllBusData call, however
\* old the index is; and the index changes only when clearCaches empties it
\* or a successful fetch replaces it, never when an entry expires
IndexServedWhateverItsAge ==
  [][/\ (/\ obs'.op = "getBusByLine" /\ ~obs'.resumed
         /\ obs'.via # "line_cache"
         /\ MatchingBuckets(lineIndex, NormalizeLine(obs'.arg)) # {})
          => /\ obs'.via = "index"
             /\ obs'.all = "none" /\ ~obs'.upstream
             /\ obs'.phase = "return"
                  => IsLookupOf(lineIndex, NormalizeLine(obs'.arg), obs'.v)
     /\ lineIndex' # lineIndex
          => \/ obs'.op = "clearCaches" /\ lineIndex' = <<>>
             \/ FetchSucceeds]_vars

\* a query by line was answered from the index after the general entry and
\* the stale snapshot had both expired
IndexOutlivedSnapshot ==
  /\ obs.op = "getBusByLine"
  /\ obs.via = "index"
  /\ obs.v # <<>>
  /\ DOMAIN generalCache = {}
  /\ now > Epoch + ttlStale * MsPerSecond


\* ---------------------------------------------------- service worker (sw.js)
\* Response.ok
Ok(response) ==
  response.kind = "response" /\ response.status >= 200 /\ response.status <= 299



\* the fetch listener for a request under /api/: cache.match on the dynamic
\* cache; with a response, fetch in the background and return the response;
\* without one, return what fetch gives.  A pending request remembers the
\* Cache object it will put into: attached is FALSE once that cache was
\* deleted
SwFetch(request) ==
  /\ Len(worker.pending) < SwInFlight
  /\ LET response == worker.cache[request]
         hit == response.kind = "response"
     IN worker' = [worker EXCEPT
          !.pending = Append(@, [request |-> request, background |-> hit,
                                 attached |-> TRUE]),
          !.last = [InstalledWorker.last EXCEPT !.op = "fetch", !.request = request,
                                  !.returned = IF hit THEN response
                                               ELSE NoResponse,
                                  !.background = hit, !.started = TRUE]]
  /\ UNCHANGED <<server, app>>

\* the then of fetch with a put for every response
SwSettleAlwaysPut(i, outcome) ==
  /\ i <= Len(worker.pending)
  /\ LET p == worker.pending[i]
         put == outcome.kind = "response"
     IN worker' = [worker EXCEPT
          !.cache = IF put /\ p.attached THEN [@ EXCEPT ![p.request] = outcome]
                    ELSE @,
          !.pending = RemoveAt(@, i),
          !.last = [InstalledWorker.last EXCEPT !.op = "settle", !.request = p.request,
                                  !.returned = IF p.background THEN NoResponse
                                               ELSE outcome,
                                  !.network = outcome,
                                  !.background = p.background, !.put = put]]
  /\ UNCHANGED <<server, app>>

\* a network request settles: the then of fetch puts the response when it is
\* ok; the request of a cache miss hands the response, or the rejection, to
\* the page; the rejection of a background request is logged
SwSettle(i, outcome) ==
  /\ i <= Len(worker.pending)
  /\ LET p == worker.pending[i]
         put == Ok(outcome)
     IN worker' = [worker EXCEPT
          !.cache = IF put /\ p.attached THEN [@ EXCEPT ![p.request] = outcome]
                    ELSE @,
          !.pending = RemoveAt(@, i),
          !.last = [InstalledWorker.last EXCEPT !.op = "settle", !.request = p.request,
                                  !.returned = IF p.background THEN NoResponse
                                               ELSE outcome,
                                  !.network = outcome,
                                  !.background = p.background, !.put = put]]
  /\ UNCHANGED <<server, app>>

\* the sync listener: fetch('/api/sppo'), and the put, when the response is
\* ok, into the dynamic cache opened after the response
SwSync ==
  /\ Len(worker.pending) < SwInFlight
  /\ worker' = [worker EXCEPT
       !.pending = Append(@, [request |-> "/api/sppo", background |-> TRUE,
                              attached |-> TRUE]),
       !.last = [InstalledWorker.last EXCEPT !.op = "sync", !.request = "/api/sppo",
                               !.background = TRUE, !.started = TRUE]]
  /\ UNCHANGED <<server, app>>

\* the message listener with CLEAR_CACHE: caches.delete(DYNAMIC_CACHE); the
\* Cache objects the fetch listener holds are no longer the dynamic cache
SwClearCache ==
  /\ worker' = [worker EXCEPT
       !.cache = [r \in SwRequests |-> NoResponse],
       !.pending = [j \in 1..Len(@) |-> [@[j] EXCEPT !.attached = FALSE]],
       !.last = [InstalledWorker.last EXCEPT !.op = "clear"]]
  /\ UNCHANGED <<server, app>>

\* the service worker alone; fetch settles with an ok response, an error
\* response or a rejection
NextWorker ==
  \/ \E request \in SwRequests : SwFetch(request)
  \/ \E i \in 1..SwInFlight :
       \E outcome \in {[kind |-> "response", status |-> 200, body |-> 1],
                       [kind |-> "response", status |-> 200, body |-> 2],
                       [kind |-> "response", status |-> 500, body |-> 3],
                       [kind |-> "rejected", status |-> 0, body |-> 0]} :
         SwSettle(i, outcome)
  \/ SwSync
  \/ SwClearCache

SpecWorker == Init /\ [][NextWorker]_vars

\* C35: for a request under /api/ the fetch listener returns the cached
\* response when there is one and starts a network request in the background,
\* and returns the network response when there is none; a network response is
\* written to the dynamic cache only when it is ok, so an error response is
\* never stored and never replaces a stored response
CachedFirstOnlyOkStored ==
  [][worker' # worker =>
       /\ worker'.last.op = "fetch" =>
            /\ worker'.last.started
            /\ Len(worker'.pending) = Len(worker.pending) + 1
            /\ worker.cache[worker'.last.request].kind = "response"
                 => /\ worker'.last.returned = worker.cache[worker'.last.request]
                    /\ worker'.last.background
       /\ (worker'.last.op = "settle" /\ ~worker'.last.background)
            => worker'.last.returned = worker'.last.network
       /\ \A r \in SwRequests :
            worker'.cache[r] # worker.cache[r]
              => \/ worker'.last.op = "clear"
                 \/ /\ worker'.last.op = "settle" /\ worker'.last.request = r
                    /\ worker'.cache[r] = worker'.last.network
                    /\ Ok(worker'.last.network)
       /\ \A r \in SwRequests : worker'.cache[r].kind = "response"
                                  => Ok(worker'.cache[r])]_vars

\* the background request of a cache hit was answered with an error response
\* and the stored response is still the one in the cache
ErrorAnswerLeftStoredResponse ==
  /\ worker.last.op = "settle"
  /\ worker.last.background
  /\ worker.last.network.kind = "response" /\ ~Ok(worker.last.network)
  /\ Ok(worker.cache[worker.last.request])


\* ---------------------------------------------------- BusMonitorApp (app.js)
\* the lists the page is given: none, three records of which two share an
\* ordem and one has no coordinates, and a long list of distinct vehicles
BusLists ==
  { <<>>,
    << [ordem |-> 1, latitude |-> -22, longitude |-> -43],
       [ordem |-> 1, latitude |-> -23, longitude |-> -43],
       [ordem |-> 2, latitude |-> 0, longitude |-> 0] >>,
    [i \in 1..BigLen |-> [ordem |-> i, latitude |-> -22, longitude |-> -43]] }

\* renderTablePage: the rows of page currentPage of currentBuses, appended
\* to tbody
renderTablePage(a) ==
  LET startIndex == a.currentPage * itemsPerPage
      endIndex == IF startIndex + itemsPerPage < Len(a.currentBuses)
                    THEN startIndex + itemsPerPage
                    ELSE Len(a.currentBuses)
  IN [a EXCEPT !.rows = IF startIndex < endIndex
                          THEN @ \o SubSeq(a.currentBuses, startIndex + 1, endIndex)
                          ELSE @]

\* clearMarkers: marker.remove() for the values of this.markers, then
\* this.markers.clear()
clearMarkers(a) ==
  [a EXCEPT !.onMap = @ \ a.markers, !.markers = {}]

\* showError: the message is shown and a timer is set; no timer is cleared
ShowError ==
  /\ app.shows < MaxShows
  /\ app' = [app EXCEPT !.errorVisible = TRUE,
                        !.timers = @ \cup {app.clock + hideDelay},
                        !.shownAt = app.clock, !.shows = @ + 1,
                        !.dismissed = FALSE]
  /\ UNCHANGED <<server, worker>>

\* a second passes on the page; the timers that are due run hideError
AppTick ==
  /\ app.clock < AppTicks * MsPerSecond
  /\ LET t == app.clock + MsPerSecond
         due == {d \in app.timers : d <= t}
     IN app' = [app EXCEPT !.clock = t,
                           !.timers = @ \ due,
                           !.errorVisible = IF due # {} THEN FALSE ELSE @]
  /\ UNCHANGED <<server, worker>>

\* the click on #dismissError, a button of the visible message: hideError
DismissError ==
  /\ app.errorVisible
  /\ app' = [app EXCEPT !.errorVisible = FALSE, !.dismissed = TRUE]
  /\ UNCHANGED <<server, worker>>

\* updateTable(buses): tbody is emptied; an empty list returns there; else
\* the list becomes currentBuses, page 0 is rendered and the scroll listener
\* is replaced
UpdateTable(buses) ==
  /\ app' = IF Len(buses) = 0
              THEN [app EXCEPT !.rows = <<>>, !.buses = buses]
              ELSE renderTablePage(
                     [app EXCEPT !.rows = <<>>, !.buses = buses,
                                 !.currentBuses = buses, !.currentPage = 0,
                                 !.scrollListener = TRUE])
  /\ UNCHANGED <<server, worker>>

\* a scroll event reaches the listener of setupVirtualScroll; past: the table
\* is scrolled past 80 %
Scroll(past) ==
  /\ app.scrollListener
  /\ app' = IF past /\ app.currentPage * itemsPerPage < Len(app.currentBuses)
              THEN renderTablePage([app EXCEPT !.currentPage = @ + 1])
              ELSE app
  /\ UNCHANGED <<server, worker>>

\* updateMap(buses): clearMarkers, then one marker for each record with
\* coordinates, made by createBusMarker, which adds it to the map; the marker
\* is set in this.markers under the ordem of its record, and beyond
\* clusterLimit records it is added to markerCluster after clearLayers.  A
\* marker is [call, i, ordem]: made by the call-th updateMap for buses[i]
UpdateMap(buses) ==
  /\ app.calls < MaxUpdates
  /\ LET a == clearMarkers(app)
         call == app.calls + 1
         begun == [a EXCEPT !.calls = call, !.left = a.onMap \cup a.cluster]
         marked(i) == buses[i].latitude # 0 /\ buses[i].longitude # 0
         created == {[call |-> call, i |-> i, ordem |-> buses[i].ordem] :
                       i \in {j \in 1..Len(buses) : marked(j)}}
         set == {m \in created :
                   \A j \in (m.i + 1)..Len(buses) :
                     marked(j) => buses[j].ordem # m.ordem}
     IN app' = IF Len(buses) = 0 THEN begun
               ELSE IF Len(buses) > clusterLimit
                 THEN [begun EXCEPT !.markerCluster = TRUE,
                                    !.cluster = created,
                                    !.onMap = @ \cup created,
                                    !.markers = set]
               ELSE [begun EXCEPT !.onMap = @ \cup created, !.markers = set]
  /\ UNCHANGED <<server, worker>>

NextApp ==
  \/ ShowError
  \/ AppTick
  \/ DismissError
  \/ \E buses \in BusLists : UpdateTable(buses)
  \/ \E past \in BOOLEAN : Scroll(past)
  \/ \E buses \in BusLists : UpdateMap(buses)

SpecApp == Init /\ [][NextApp]_vars

\* C36: a message shown by showError stays visible for 5 seconds after that
\* call unless the user dismisses it, also when an earlier showError call
\* was less than 5 seconds before it
ErrorShownFiveSeconds ==
  (/\ app.shownAt >= 0
   /\ ~app.dismissed
   /\ app.clock < app.shownAt + hideDelay) => app.errorVisible

\* C37: after updateTable(buses) and any scroll events the rows of the table
\* are a prefix of buses, each bus once and in order
RowsArePrefixOfBuses ==
  /\ Len(app.rows) <= Len(app.buses)
  /\ app.rows = SubSeq(app.buses, 1, Len(app.rows))

\* C38: after clearMarkers, at the start of every updateMap, no marker made
\* by an earlier updateMap is left on the map
NoMarkerLeftAfterClear == app.left = {}

====
